---- MODULE Spec2Model ----
(***************************************************************************)
(* Tick-level model of the bus functional models of SotaSoC's cocotb       *)
(* testbench: I2CSlaveBFM (tb/cocotb/i2c_slave_bfm.py), SPISlaveBFM        *)
(* (tb/cocotb/spi_slave_bfm.py) and the flash/PSRAM emulator with its      *)
(* memory accessors (tb/cocotb/qspi_memory_utils.py).  One Tick action is  *)
(* one iteration of a run() loop, i.e. one rising edge of the system       *)
(* clock.                                                                  *)
(***************************************************************************)
EXTENDS Integers, Sequences, FiniteSets, TLC

VARIABLES
    i2c,        \* the fields of the I2CSlaveBFM object and of its run() coroutine
    i2c_acked,  \* history: number of bytes the slave has acknowledged
    last,       \* history: the operation that produced the current state, and
                \* for a tick what it sampled and the slave's state before it
    m_wave,     \* I2C master driver: the (scl, sda) levels of its transaction
    m_pos,      \* I2C master driver: position in m_wave (0 = bus idle, not started)
    m_ticks,    \* I2C master driver: ticks spent at m_pos, saturating at 2
    m_got,      \* I2C master driver: SDA levels sampled at the rising edges of read data bits
    m_short,    \* I2C master driver: SCL was low for one tick only before the first read bit
    m_fast,     \* I2C master driver: some level of the transaction was held for one tick only
    spi,        \* the fields of the SPISlaveBFM object and of its run() coroutine
    spi_h,      \* history: the last SPI operation and the current chip-select assertion
    qspi,       \* the locals of the flash/PSRAM emulator coroutine and its memory
    qh,         \* history: the last tick of the emulator and its current transaction
    byte_memory,\* the bytearray a test hands to the memory accessors
    acc,        \* history: the last accessor call, its arguments and its outcome
    wt          \* the coroutine of wait_for_transfer or wait_for_n_transfers

vars == <<i2c, i2c_acked, last, m_wave, m_pos, m_ticks, m_got, m_short, m_fast, spi, spi_h,
          qspi, qh, byte_memory, acc, wt>>

----------------------------------------------------------------------------
(* Bounds of the model. *)

\* longest rx_bytes the model lets the slave collect
MaxRx == 2
\* most data bytes in one transaction of the master driver
MaxData == 2
\* longest TX list handed to set_tx_data
MaxTx == 2

\* longest rx_buffer the model lets the SPI slave collect
MaxSpiRx == 1
\* SCLK rising edges counted per chip-select assertion (the count saturates)
MaxRises == 10

\* 7-bit address the slave is constructed with (the default of __init__)
Address == 33

\* bytes the master may shift out on SDA in the free-running specification:
\* write and read address bytes of the slave, an address byte of another
\* device, and two data bytes
MasterBytes == {66, 67, 68, 170, 0}

\* values a test may put into a TX list (one of them wider than a byte)
TxValues == {60, 427}

\* TX lists handed to set_tx_data
TxLists == UNION {[1..n -> TxValues] : n \in 0..MaxTx}

\* TX lists handed to the I2C slave in the free-running specification
I2CTxLists == {<<>>, <<60>>, <<427, 60>>}

\* 9-bit MOSI patterns the SPI master may shift out (0xAA and 0x00, each
\* followed by one more bit)
MosiWords == {341, 0}

\* TX lists handed to the SPI slave in the free-running specification
SpiTxLists == {<<>>, <<187>>}

Bit == {0, 1}

----------------------------------------------------------------------------
(* Integer helpers for Python's bit operators. *)

RECURSIVE Pow2(_)
Pow2(n) == IF n = 0 THEN 1 ELSE 2 * Pow2(n - 1)

\* (x >> i) & 1
BitAt(x, i) == (x \div Pow2(i)) % 2

\* the first k bits (MSB first) of the 8-bit value b
Prefix8(b, k) == b \div Pow2(8 - k)

----------------------------------------------------------------------------
(* I2CSlaveBFM *)

\* I2CSlaveBFM.__init__
I2C_init ==
    [ pc          |-> "created",   \* position of run(): created, await, done
      running     |-> FALSE,
      address     |-> Address % 128,
      rx_bytes    |-> <<>>,
      tx_bytes    |-> <<>>,
      tx_index    |-> 0,
      prev_sda    |-> 1,
      prev_scl    |-> 1,
      state       |-> "IDLE",
      bit_count   |-> 0,
      shift_reg   |-> 0,
      rw_bit      |-> 0,
      ack_pending |-> FALSE,
      sda_in      |-> 1,           \* level the slave drives on SDA
      scl_in      |-> 1,
      addr        |-> -1,          \* local of run(); -1 = not yet bound
      error       |-> FALSE ]      \* run() ended with an exception

\* I2CSlaveBFM.set_tx_data
I2C_set_tx_data(s, data_list) ==
    [s EXCEPT !.tx_bytes = data_list, !.tx_index = 0]

\* I2CSlaveBFM._get_next_tx_byte: <<returned byte, new cursor>>
I2C_get_next_tx_byte(s) ==
    IF s.tx_index < Len(s.tx_bytes)
    THEN <<s.tx_bytes[s.tx_index + 1] % 256, s.tx_index + 1>>
    ELSE <<255, s.tx_index>>

\* self.shift_reg = self._get_next_tx_byte()
I2C_load_tx(s) ==
    LET r == I2C_get_next_tx_byte(s)
    IN  [s EXCEPT !.shift_reg = r[1], !.tx_index = r[2]]

\* run(): start_cond, evaluated on the latched and the sampled levels
I2C_start_cond(s, scl, sda) == s.prev_sda = 1 /\ sda = 0 /\ scl = 1
\* run(): stop_cond
I2C_stop_cond(s, scl, sda) == s.prev_sda = 0 /\ sda = 1 /\ scl = 1
\* run(): rising_scl
I2C_rising_scl(s, scl) == s.prev_scl = 0 /\ scl = 1
\* run(): falling_scl
I2C_falling_scl(s, scl) == s.prev_scl = 1 /\ scl = 0

\* a START block that does not restart the bit counter
I2C_on_start_keeps_count(s) ==
    [s EXCEPT !.state = "ADDR", !.shift_reg = 0, !.ack_pending = FALSE, !.sda_in = 1]

\* run(): "if start_cond:" block
I2C_on_start(s) ==
    [s EXCEPT !.state = "ADDR", !.bit_count = 0, !.shift_reg = 0,
              !.ack_pending = FALSE, !.sda_in = 1]

\* a STOP block that forgets to clear bit_count
I2C_on_stop_keeps_count(s) ==
    [s EXCEPT !.state = "IDLE", !.shift_reg = 0, !.ack_pending = FALSE, !.sda_in = 1]

\* run(): "if stop_cond:" block
I2C_on_stop(s) ==
    [s EXCEPT !.state = "IDLE", !.bit_count = 0, !.shift_reg = 0,
              !.ack_pending = FALSE, !.sda_in = 1]

\* an ADDR branch that acknowledges every address
I2C_ADDR_acks_all(s, rising, falling, sda) ==
    LET sh == (s.shift_reg * 2 + sda) % 256
        s1 == IF rising
              THEN LET t == [s EXCEPT !.shift_reg = sh, !.bit_count = s.bit_count + 1]
                   IN  IF t.bit_count = 8
                       THEN [t EXCEPT !.rx_bytes = Append(s.rx_bytes, sh),
                                      !.addr = (sh \div 2) % 128,
                                      !.rw_bit = sh % 2]
                       ELSE t
              ELSE s
    IN  IF falling /\ s1.bit_count = 8
        THEN [s1 EXCEPT !.ack_pending = TRUE, !.state = "ACK_ADDR"]
        ELSE s1

\* run(): the ADDR branch
I2C_ADDR(s, rising, falling, sda) ==
    LET sh == (s.shift_reg * 2 + sda) % 256
        s1 == IF rising
              THEN LET t == [s EXCEPT !.shift_reg = sh, !.bit_count = s.bit_count + 1]
                   IN  IF t.bit_count = 8
                       THEN [t EXCEPT !.rx_bytes = Append(s.rx_bytes, sh),
                                      !.addr = (sh \div 2) % 128,
                                      !.rw_bit = sh % 2]
                       ELSE t
              ELSE s
    IN  IF falling /\ s1.bit_count = 8
        THEN IF s1.addr = -1
             THEN [s1 EXCEPT !.error = TRUE, !.pc = "done"]   \* UnboundLocalError
             ELSE IF s1.addr = s1.address
                  THEN [s1 EXCEPT !.ack_pending = TRUE, !.state = "ACK_ADDR"]
                  ELSE [s1 EXCEPT !.ack_pending = FALSE, !.state = "IDLE"]
        ELSE s1

\* an ACK_ADDR branch that keeps SDA low after the ACK clock
I2C_ACK_ADDR_no_release(s, falling) ==
    LET s1 == [s EXCEPT !.sda_in = 0]
    IN  IF falling /\ s1.ack_pending
        THEN LET s2 == [s1 EXCEPT !.bit_count = 0, !.shift_reg = 0]
             IN  IF s2.rw_bit = 0
                 THEN [s2 EXCEPT !.state = "DATA_WRITE"]
                 ELSE [I2C_load_tx(s2) EXCEPT !.state = "DATA_READ"]
        ELSE s1

\* run(): the ACK_ADDR branch
I2C_ACK_ADDR(s, falling) ==
    LET s1 == [s EXCEPT !.sda_in = 0]
    IN  IF falling /\ s1.ack_pending
        THEN LET s2 == [s1 EXCEPT !.sda_in = 1, !.bit_count = 0, !.shift_reg = 0]
             IN  IF s2.rw_bit = 0
                 THEN [s2 EXCEPT !.state = "DATA_WRITE"]
                 ELSE [I2C_load_tx(s2) EXCEPT !.state = "DATA_READ"]
        ELSE s1

\* a DATA_WRITE branch that assembles the byte least-significant bit first
I2C_DATA_WRITE_lsb_first(s, rising, falling, sda) ==
    LET sh == (s.shift_reg \div 2) + 128 * sda
        s1 == IF rising
              THEN LET t == [s EXCEPT !.shift_reg = sh, !.bit_count = s.bit_count + 1]
                   IN  IF t.bit_count = 8
                       THEN [t EXCEPT !.rx_bytes = Append(s.rx_bytes, sh),
                                      !.ack_pending = TRUE]
                       ELSE t
              ELSE s
    IN  IF falling /\ s1.bit_count = 8
        THEN [s1 EXCEPT !.state = "ACK_WRITE"]
        ELSE s1

\* a DATA_WRITE branch that records a byte only when its ACK clock begins
I2C_DATA_WRITE_late_append(s, rising, falling, sda) ==
    LET sh == (s.shift_reg * 2 + sda) % 256
        s1 == IF rising
              THEN LET t == [s EXCEPT !.shift_reg = sh, !.bit_count = s.bit_count + 1]
                   IN  IF t.bit_count = 8 THEN [t EXCEPT !.ack_pending = TRUE] ELSE t
              ELSE s
    IN  IF falling /\ s1.bit_count = 8
        THEN [s1 EXCEPT !.state = "ACK_WRITE",
                        !.rx_bytes = Append(s.rx_bytes, s.shift_reg)]
        ELSE s1

\* run(): the DATA_WRITE branch
I2C_DATA_WRITE(s, rising, falling, sda) ==
    LET sh == (s.shift_reg * 2 + sda) % 256
        s1 == IF rising
              THEN LET t == [s EXCEPT !.shift_reg = sh, !.bit_count = s.bit_count + 1]
                   IN  IF t.bit_count = 8
                       THEN [t EXCEPT !.rx_bytes = Append(s.rx_bytes, sh),
                                      !.ack_pending = TRUE]
                       ELSE t
              ELSE s
    IN  IF falling /\ s1.bit_count = 8
        THEN [s1 EXCEPT !.state = "ACK_WRITE"]
        ELSE s1

\* an ACK_WRITE branch that releases SDA without clearing the bit counter
I2C_ACK_WRITE_keeps_count(s, falling) ==
    LET s1 == [s EXCEPT !.sda_in = 0]
    IN  IF falling /\ s1.ack_pending
        THEN [s1 EXCEPT !.sda_in = 1, !.ack_pending = FALSE,
                        !.shift_reg = 0, !.state = "DATA_WRITE"]
        ELSE s1

\* run(): the ACK_WRITE branch
I2C_ACK_WRITE(s, falling) ==
    LET s1 == [s EXCEPT !.sda_in = 0]
    IN  IF falling /\ s1.ack_pending
        THEN [s1 EXCEPT !.sda_in = 1, !.ack_pending = FALSE, !.bit_count = 0,
                        !.shift_reg = 0, !.state = "DATA_WRITE"]
        ELSE s1

\* a DATA_READ branch that shifts the byte out least-significant bit first
I2C_DATA_READ_lsb_first(s, rising, scl) ==
    LET s1 == IF scl = 0 /\ s.bit_count < 8
              THEN [s EXCEPT !.sda_in = BitAt(s.shift_reg, s.bit_count)]
              ELSE s
    IN  IF rising
        THEN LET t == [s1 EXCEPT !.bit_count = s1.bit_count + 1]
             IN  IF t.bit_count = 8
                 THEN [t EXCEPT !.sda_in = 1, !.state = "READ_WAIT_ACK"]
                 ELSE t
        ELSE s1

\* a DATA_READ branch that leaves bit 0 on SDA when the byte is complete
I2C_DATA_READ_keeps_sda(s, rising, scl) ==
    LET s1 == IF scl = 0 /\ s.bit_count < 8
              THEN [s EXCEPT !.sda_in = BitAt(s.shift_reg, 7 - s.bit_count)]
              ELSE s
    IN  IF rising
        THEN LET t == [s1 EXCEPT !.bit_count = s1.bit_count + 1]
             IN  IF t.bit_count = 8
                 THEN [t EXCEPT !.state = "READ_WAIT_ACK"]
                 ELSE t
        ELSE s1

\* run(): the DATA_READ branch
I2C_DATA_READ(s, rising, scl) ==
    LET s1 == IF scl = 0 /\ s.bit_count < 8
              THEN [s EXCEPT !.sda_in = BitAt(s.shift_reg, 7 - s.bit_count)]
              ELSE s
    IN  IF rising
        THEN LET t == [s1 EXCEPT !.bit_count = s1.bit_count + 1]
             IN  IF t.bit_count = 8
                 THEN [t EXCEPT !.sda_in = 1, !.state = "READ_WAIT_ACK"]
                 ELSE t
        ELSE s1

\* a READ_WAIT_ACK branch that reads the master's ACK level inverted
I2C_READ_WAIT_ACK_inverted(s, rising, sda) ==
    IF rising
    THEN LET s1 == [s EXCEPT !.bit_count = 0]
         IN  IF sda = 1
             THEN [I2C_load_tx(s1) EXCEPT !.state = "DATA_READ"]
             ELSE [s1 EXCEPT !.state = "IDLE"]
    ELSE s

\* run(): the READ_WAIT_ACK branch
I2C_READ_WAIT_ACK(s, rising, sda) ==
    IF rising
    THEN LET s1 == [s EXCEPT !.bit_count = 0]
         IN  IF sda = 0
             THEN [I2C_load_tx(s1) EXCEPT !.state = "DATA_READ"]
             ELSE [s1 EXCEPT !.state = "IDLE"]
    ELSE s

\* run(): the levels after the START and STOP blocks, before the state machine
I2C_after_cond(s, scl, sda) ==
    LET s1 == IF I2C_start_cond(s, scl, sda) THEN I2C_on_start(s) ELSE s
    IN  IF I2C_stop_cond(s, scl, sda) THEN I2C_on_stop(s1) ELSE s1

\* run(): the if/elif chain on self.state
I2C_fsm(s, rising, falling, scl, sda) ==
    CASE s.state = "ADDR"          -> I2C_ADDR(s, rising, falling, sda)
      [] s.state = "ACK_ADDR"      -> I2C_ACK_ADDR(s, falling)
      [] s.state = "DATA_WRITE"    -> I2C_DATA_WRITE(s, rising, falling, sda)
      [] s.state = "ACK_WRITE"     -> I2C_ACK_WRITE(s, falling)
      [] s.state = "DATA_READ"     -> I2C_DATA_READ(s, rising, scl)
      [] s.state = "READ_WAIT_ACK" -> I2C_READ_WAIT_ACK(s, rising, sda)
      [] OTHER                     -> s

\* run(): one iteration of the while loop, scl and sda being the master's levels
I2C_tick(s, scl, sda) ==
    LET s1 == I2C_after_cond(s, scl, sda)
        s2 == I2C_fsm(s1, I2C_rising_scl(s, scl), I2C_falling_scl(s, scl), scl, sda)
        s3 == [s2 EXCEPT !.prev_scl = scl, !.prev_sda = sda]
    IN  IF s2.error THEN s2
        ELSE IF s3.running THEN s3 ELSE [s3 EXCEPT !.pc = "done"]

\* run(): the statements before the loop
I2C_run_begin(s) ==
    [s EXCEPT !.running = TRUE, !.scl_in = 1, !.sda_in = 1, !.pc = "await"]

----------------------------------------------------------------------------
(* SPISlaveBFM *)

\* SPISlaveBFM.__init__
SPI_init ==
    [ pc             |-> "created",   \* position of run(): created, await, done
      running        |-> FALSE,
      rx_buffer      |-> <<>>,
      tx_buffer      |-> <<>>,
      current_tx_byte |-> 255,
      bit_count      |-> 0,
      rx_byte        |-> 0,
      tx_byte        |-> 255,
      tx_byte_index  |-> 0,
      prev_sclk      |-> 0,
      prev_cs_n      |-> 0,
      miso           |-> -1 ]         \* level driven on MISO; -1 = not driven yet

\* SPISlaveBFM.set_tx_data
SPI_set_tx_data(s, data_list) ==
    [s EXCEPT !.tx_buffer = data_list, !.tx_byte_index = 0]

\* SPISlaveBFM.clear_tx_buffer
SPI_clear_tx_buffer(s) ==
    [s EXCEPT !.tx_buffer = <<>>, !.tx_byte_index = 0]

\* SPISlaveBFM.clear_rx_buffer
SPI_clear_rx_buffer(s) ==
    [s EXCEPT !.rx_buffer = <<>>]

\* a get_next_tx_byte that starts again at the first byte when exhausted
SPI_get_next_tx_byte_wraps(s) ==
    IF s.tx_byte_index < Len(s.tx_buffer)
    THEN [s EXCEPT !.tx_byte = s.tx_buffer[s.tx_byte_index + 1],
                   !.tx_byte_index = s.tx_byte_index + 1]
    ELSE IF Len(s.tx_buffer) > 0
         THEN [s EXCEPT !.tx_byte = s.tx_buffer[1], !.tx_byte_index = 1]
         ELSE [s EXCEPT !.tx_byte = 255]

\* SPISlaveBFM.get_next_tx_byte
SPI_get_next_tx_byte(s) ==
    IF s.tx_byte_index < Len(s.tx_buffer)
    THEN [s EXCEPT !.tx_byte = s.tx_buffer[s.tx_byte_index + 1],
                   !.tx_byte_index = s.tx_byte_index + 1]
    ELSE [s EXCEPT !.tx_byte = 255]

\* run(): the statements before the loop
SPI_run_begin(s) ==
    SPI_get_next_tx_byte([s EXCEPT !.running = TRUE, !.miso = 0, !.pc = "await"])

\* a chip-select falling edge that does not drive the MSB on MISO
SPI_cs_fall_no_predrive(s) ==
    [s EXCEPT !.rx_byte = 0, !.bit_count = 1]

\* run(): "Transfer starting", the chip-select falling edge
SPI_cs_fall(s) ==
    [s EXCEPT !.rx_byte = 0, !.miso = BitAt(s.tx_byte, 7), !.bit_count = 1]

\* run(): "Transfer ending", the chip-select rising edge
SPI_cs_rise(s) ==
    LET s1 == IF s.bit_count >= 8
              THEN [s EXCEPT !.rx_buffer = Append(s.rx_buffer, s.rx_byte)]
              ELSE s
    IN  [s1 EXCEPT !.bit_count = 0, !.rx_byte = 0, !.miso = 0]

\* run(): the SCLK rising edge of an active transfer
SPI_sclk_rise(s, mosi) ==
    LET s1 == [s EXCEPT !.rx_byte = s.rx_byte * 2 + (mosi % 2)]
    IN  IF s1.bit_count = 8
        THEN SPI_get_next_tx_byte(
                 [s1 EXCEPT !.rx_buffer = Append(s1.rx_buffer, s1.rx_byte),
                            !.bit_count = 0, !.rx_byte = 0])
        ELSE s1

\* run(): the SCLK falling edge of an active transfer
SPI_sclk_fall(s) ==
    IF s.bit_count < 8
    THEN [s EXCEPT !.miso = BitAt(s.tx_byte, 7 - s.bit_count),
                   !.bit_count = s.bit_count + 1]
    ELSE s

\* run(): one iteration of the while loop on the sampled levels
SPI_tick(s, cs_n, sclk, mosi) ==
    LET s1 == IF cs_n = 0 /\ s.prev_cs_n = 1 THEN SPI_cs_fall(s)
              ELSE IF cs_n = 1 /\ s.prev_cs_n = 0 THEN SPI_cs_rise(s)
              ELSE IF cs_n = 0
                   THEN IF sclk = 1 /\ s.prev_sclk = 0 THEN SPI_sclk_rise(s, mosi)
                        ELSE IF sclk = 0 /\ s.prev_sclk = 1 THEN SPI_sclk_fall(s)
                        ELSE s
                   ELSE s
        s2 == [s1 EXCEPT !.prev_sclk = sclk, !.prev_cs_n = cs_n]
    IN  IF s2.running THEN s2 ELSE [s2 EXCEPT !.pc = "done"]

\* the coroutine of a wait helper: not called, suspended at
\* "await RisingEdge(self.clk)" in its loop, or returned
SPI_no_wait ==
    [ pc |-> "none", kind |-> "", n |-> 0, timeout_cycles |-> 0,
      initial_rx_count |-> 0, target_count |-> 0,
      cycles |-> 0,            \* iterations of the for loop begun
      result |-> <<"None">>,   \* <<"None">>, <<"byte", b>> or <<"list", l>>
      rx_ret |-> <<>> ]        \* rx_buffer when the helper returned

\* wait_for_transfer: the loop is over, "return None"
SPI_wait_for_transfer_timeout(w, rx) ==
    [w EXCEPT !.pc = "done", !.result = <<"None">>, !.rx_ret = rx]

\* wait_for_transfer up to its first await
SPI_wait_for_transfer_begin(s, timeout_cycles) ==
    LET w == [SPI_no_wait EXCEPT !.pc = "await", !.kind = "wait_for_transfer",
                                 !.timeout_cycles = timeout_cycles,
                                 !.initial_rx_count = Len(s.rx_buffer)]
    IN  IF timeout_cycles <= 0 THEN SPI_wait_for_transfer_timeout(w, s.rx_buffer) ELSE w

\* wait_for_transfer: "return self.rx_buffer[-1]"
SPI_wait_for_transfer_return(w, rx) ==
    [w EXCEPT !.pc = "done", !.result = <<"byte", rx[Len(rx)]>>, !.rx_ret = rx]

\* wait_for_transfer: one iteration of its loop.  rx and prev_cs_n are the
\* BFM's rx_buffer and prev_cs_n when the helper resumes on the clock edge,
\* cs_n is the chip-select level, and rx_timer is the rx_buffer after the
\* "await Timer(10, units='ns')" taken when the chip-select has just risen
SPI_wait_for_transfer_step(w, rx, prev_cs_n, cs_n, rx_timer) ==
    LET w1 == [w EXCEPT !.cycles = w.cycles + 1]
        ended == cs_n = 1 /\ prev_cs_n = 0
        seen == IF ended THEN rx_timer ELSE rx
    IN  IF Len(rx) > w.initial_rx_count THEN SPI_wait_for_transfer_return(w1, rx)
        ELSE IF ended /\ Len(rx_timer) > w.initial_rx_count
             THEN SPI_wait_for_transfer_return(w1, rx_timer)
        ELSE IF w1.cycles >= w.timeout_cycles
             THEN SPI_wait_for_transfer_timeout(w1, seen)
        ELSE w1

\* rx_buffer[i:j] for 0 <= i
Slice(l, i, j) ==
    LET hi == IF j < 0 THEN Len(l) + j ELSE IF j > Len(l) THEN Len(l) ELSE j
    IN  SubSeq(l, i + 1, hi)

\* wait_for_n_transfers: the loop is over, "return self.rx_buffer[initial_rx_count:]"
SPI_wait_for_n_transfers_timeout(w, rx) ==
    [w EXCEPT !.pc = "done", !.rx_ret = rx,
              !.result = <<"list", Slice(rx, w.initial_rx_count, Len(rx))>>]

\* wait_for_n_transfers up to its first await
SPI_wait_for_n_transfers_begin(s, n, timeout_cycles) ==
    LET w == [SPI_no_wait EXCEPT !.pc = "await", !.kind = "wait_for_n_transfers",
                                 !.n = n, !.timeout_cycles = timeout_cycles,
                                 !.initial_rx_count = Len(s.rx_buffer),
                                 !.target_count = Len(s.rx_buffer) + n]
    IN  IF timeout_cycles <= 0 THEN SPI_wait_for_n_transfers_timeout(w, s.rx_buffer) ELSE w

\* a wait_for_n_transfers iteration that returns rx_buffer[:target_count]
SPI_wait_for_n_transfers_step_from_zero(w, rx) ==
    LET w1 == [w EXCEPT !.cycles = w.cycles + 1]
    IN  IF Len(rx) >= w.target_count
        THEN [w1 EXCEPT !.pc = "done", !.rx_ret = rx,
                        !.result = <<"list", Slice(rx, 0, w.target_count)>>]
        ELSE IF w1.cycles >= w.timeout_cycles
             THEN SPI_wait_for_n_transfers_timeout(w1, rx)
        ELSE w1

\* wait_for_n_transfers: one iteration of its loop, rx being the BFM's
\* rx_buffer when the helper resumes on the clock edge
SPI_wait_for_n_transfers_step(w, rx) ==
    LET w1 == [w EXCEPT !.cycles = w.cycles + 1]
    IN  IF Len(rx) >= w.target_count
        THEN [w1 EXCEPT !.pc = "done", !.rx_ret = rx,
                        !.result = <<"list", Slice(rx, w.initial_rx_count, w.target_count)>>]
        ELSE IF w1.cycles >= w.timeout_cycles
             THEN SPI_wait_for_n_transfers_timeout(w1, rx)
        ELSE w1

----------------------------------------------------------------------------
(* History of the last operation. *)

NoTick(name) ==
    [ name |-> name, start |-> FALSE, stop |-> FALSE, rising |-> FALSE,
      falling |-> FALSE, from |-> "IDLE", bit_count |-> 0, sda_in |-> 1,
      tx_index |-> 0 ]

\* what a tick of the slave in state s samples on the levels scl, sda
I2C_sampled(s, scl, sda) ==
    [ name      |-> "tick",
      start     |-> I2C_start_cond(s, scl, sda),
      stop      |-> I2C_stop_cond(s, scl, sda),
      rising    |-> I2C_rising_scl(s, scl),
      falling   |-> I2C_falling_scl(s, scl),
      from      |-> s.state,
      bit_count |-> s.bit_count,
      sda_in    |-> s.sda_in,
      tx_index  |-> s.tx_index ]

AckStates == {"ACK_ADDR", "ACK_WRITE"}

\* the slave acknowledges a byte when it moves into one of its ACK states
I2C_acks(s, t) == t.state \in AckStates /\ s.state \notin AckStates

\* history of the SPI slave before any chip-select edge
SPI_NoHistory(name) ==
    [ name |-> name, open |-> FALSE, closed |-> FALSE, rises |-> 0, len0 |-> 0,
      tx_byte_index |-> 0, cs_rise |-> FALSE, lenpre |-> 0 ]

Min(a, b) == IF a < b THEN a ELSE b

\* the history after a tick of the slave in state s on the levels cs_n, sclk:
\* a chip-select falling edge opens an assertion, the next rising edge closes
\* it, and the SCLK rising edges sampled in between are counted
SPI_sampled(h, s, cs_n, sclk) ==
    LET rise == sclk = 1 /\ s.prev_sclk = 0
        h1 == IF cs_n = 0 /\ s.prev_cs_n = 1
              THEN [h EXCEPT !.open = TRUE, !.closed = FALSE,
                             !.rises = IF rise THEN 1 ELSE 0,
                             !.len0 = Len(s.rx_buffer)]
              ELSE IF cs_n = 1 /\ s.prev_cs_n = 0
              THEN [h EXCEPT !.open = FALSE, !.closed = h.open]
              ELSE [h EXCEPT !.closed = FALSE,
                             !.rises = IF h.open /\ cs_n = 0 /\ rise
                                       THEN Min(h.rises + 1, MaxRises)
                                       ELSE h.rises]
    IN  [h1 EXCEPT !.name = "tick",
                   !.tx_byte_index = s.tx_byte_index,
                   !.cs_rise = (cs_n = 1 /\ s.prev_cs_n = 0),
                   !.lenpre = Len(s.rx_buffer)]

----------------------------------------------------------------------------
(* The byte memory of qspi_memory_utils.py and its accessors.  A memory is a  *)
(* bytearray of MemSize bytes; the model keeps its initial fill and the bytes *)
(* that differ from it.                                                       *)

\* len(bytearray(32 * 1024 * 1024))
MemSize == 33554432
\* test_utils.FLASH_BASE_ADDR
FLASH_BASE_ADDR == 0
\* test_utils.PSRAM_BASE_ADDR
PSRAM_BASE_ADDR == 16777216

\* a byte of a memory image whose bytes are not all equal (a loaded binary
\* followed by os.urandom bytes)
ImageByte(a) == (a * 37 + 11) % 256

\* the byte at address a of the initial fill: "zero" is bytearray(n)
FillByte(fill, a) == IF fill = "zero" THEN 0 ELSE ImageByte(a)

\* bytearray(32 * 1024 * 1024)
ZeroMemory == [fill |-> "zero", bytes |-> <<>>]
\* the memory load_bin_file returns
ImageMemory == [fill |-> "image", bytes |-> <<>>]

InRange(a) == a >= 0 /\ a < MemSize

\* memory[a]
MemByte(mem, a) ==
    IF a \in DOMAIN mem.bytes THEN mem.bytes[a] ELSE FillByte(mem.fill, a)

\* memory[a] = v, for an index in range and a byte value
MemStore(mem, a, v) ==
    LET keep == (DOMAIN mem.bytes) \ {a}
        dom == IF v = FillByte(mem.fill, a) THEN keep ELSE keep \cup {a}
    IN  [mem EXCEPT !.bytes = [x \in dom |-> IF x = a THEN v ELSE mem.bytes[x]]]

\* the statements memory[a + i] = bs[i + 1] in order; the first index out of
\* range raises IndexError and the stores before it stay
RECURSIVE MemStoreSeq(_, _, _)
MemStoreSeq(mem, a, bs) ==
    IF bs = <<>> THEN [memory |-> mem, raised |-> FALSE]
    ELSE IF ~InRange(a) THEN [memory |-> mem, raised |-> TRUE]
    ELSE MemStoreSeq(MemStore(mem, a, Head(bs)), a + 1, Tail(bs))

(* A 32-bit word does not fit the model checker's integers, so the values of *)
(* data and of the words read and written are kept as their hexadecimal      *)
(* digits, most-significant first and without leading zeros (0 is <<>>).     *)

\* the digits without leading zeros
RECURSIVE Normal(_)
Normal(d) == IF d # <<>> /\ Head(d) = 0 THEN Normal(Tail(d)) ELSE d

\* (x >> (4 * k)) & 0xF
Digit(x, k) == IF k < Len(x) THEN x[Len(x) - k] ELSE 0

\* (x >> (8 * i)) & 0xFF
ByteOf(x, i) == Digit(x, 2 * i + 1) * 16 + Digit(x, 2 * i)

\* (x << 4) | n, for a nibble n
ShiftIn(x, n) == Normal(Append(x, n))

\* (b3 << 24) | (b2 << 16) | (b1 << 8) | b0, for bytes
WordOf(b3, b2, b1, b0) ==
    Normal(<<b3 \div 16, b3 % 16, b2 \div 16, b2 % 16,
             b1 \div 16, b1 % 16, b0 \div 16, b0 % 16>>)

\* read_word_from_memory: memory[addr] is shifted to the top byte
read_word_from_memory(mem, addr) ==
    WordOf(MemByte(mem, addr), MemByte(mem, addr + 1),
           MemByte(mem, addr + 2), MemByte(mem, addr + 3))

\* read_word_from_memory raises IndexError
read_word_raises(addr) == ~(InRange(addr) /\ InRange(addr + 3))

\* a write_word_to_memory that stores the least-significant byte first
write_word_to_memory_lsb_first(mem, addr, data) ==
    MemStoreSeq(mem, addr, <<ByteOf(data, 0), ByteOf(data, 1), ByteOf(data, 2), ByteOf(data, 3)>>)

\* write_word_to_memory
write_word_to_memory(mem, addr, data) ==
    MemStoreSeq(mem, addr, <<ByteOf(data, 3), ByteOf(data, 2), ByteOf(data, 1), ByteOf(data, 0)>>)

\* read_halfword_from_memory
read_halfword_from_memory(mem, addr) ==
    WordOf(0, 0, MemByte(mem, addr), MemByte(mem, addr + 1))

\* write_halfword_to_memory
write_halfword_to_memory(mem, addr, data) ==
    MemStoreSeq(mem, addr, <<ByteOf(data, 1), ByteOf(data, 0)>>)

\* read_byte_from_memory
read_byte_from_memory(mem, addr) == MemByte(mem, addr)

\* write_byte_to_memory
write_byte_to_memory(mem, addr, data) ==
    MemStoreSeq(mem, addr, <<ByteOf(data, 0)>>)

\* the loop of convert_hex_memory_to_byte_memory over the remaining items
\* <<addr, value>> of hex_memory
RECURSIVE convert_items(_, _)
convert_items(mem, items) ==
    IF items = <<>> THEN [memory |-> mem, raised |-> FALSE]
    ELSE LET addr == Head(items)[1]
             value == Head(items)[2]
             r == MemStoreSeq(mem, addr, <<ByteOf(value, 0), ByteOf(value, 1),
                                           ByteOf(value, 2), ByteOf(value, 3)>>)
         IN  IF r.raised THEN r ELSE convert_items(r.memory, Tail(items))

\* convert_hex_memory_to_byte_memory
convert_hex_memory_to_byte_memory(hex_memory) ==
    convert_items(ZeroMemory, hex_memory)

\* the record of an accessor call that has no arguments to keep; writes
\* counts the write accessor calls since the bytearray was built
NoCall(name, before, writes) ==
    [name |-> name, addr |-> 0, data |-> <<>>, result |-> <<>>,
     raised |-> FALSE, before |-> before, writes |-> writes]

----------------------------------------------------------------------------
(* The flash/PSRAM emulator, test_spi_memory of qspi_memory_utils.py.  The    *)
(* record holds the locals of the coroutine and the memory it was given; one  *)
(* tick is one iteration of its for loop.                                     *)

\* the locals before the loop
QSPI_init(mem) ==
    [ pc                 |-> "await",   \* await: in the loop; done: raised or returned
      raised             |-> "",        \* the exception that ended the coroutine
      is_instr           |-> FALSE,
      flash_in_cont_mode |-> FALSE,
      command            |-> 0,
      fsm_state          |-> "IDLE",
      bit_counter        |-> 0,
      addr               |-> 0,
      data               |-> <<>>,     \* hexadecimal digits of the value
      spi_clk_high       |-> TRUE,
      bus_io_in          |-> 0,
      memory             |-> mem ]

\* the coroutine ends, by an exception or by its return statement (exc = ""):
\* its locals are gone, the memory and the level on bus_io_in stay
QSPI_end(s, exc) ==
    [QSPI_init(s.memory) EXCEPT !.pc = "done", !.raised = exc, !.bus_io_in = s.bus_io_in]

QSPI_raise(s, exc) == QSPI_end(s, exc)

\* the result of a store accessor, as the next state of the coroutine
QSPI_stored(s, r) ==
    IF r.raised THEN QSPI_raise([s EXCEPT !.memory = r.memory], "IndexError")
    ELSE [s EXCEPT !.memory = r.memory]

\* an Idle state that asks for a command byte on every instruction access
QSPI_idle_no_cont(s, flash_cs_n, ram_cs_n) ==
    LET s1 == IF flash_cs_n = 0
              THEN [s EXCEPT !.is_instr = TRUE, !.command = 0, !.fsm_state = "SEND_CMD",
                             !.bit_counter = 0, !.bus_io_in = 0,
                             !.addr = 0, !.data = <<>>]
              ELSE s
    IN  IF ram_cs_n = 0
        THEN [s1 EXCEPT !.is_instr = FALSE, !.fsm_state = "SEND_CMD_QUAD",
                        !.bit_counter = 0, !.bus_io_in = 0,
                        !.command = 0, !.addr = 0, !.data = <<>>]
        ELSE s1

\* "if fsm_state == FSM_IDLE": the chip-selects sampled on the falling clock edge
QSPI_idle(s, flash_cs_n, ram_cs_n) ==
    LET s1 == IF flash_cs_n = 0
              THEN [s EXCEPT !.is_instr = TRUE,
                             !.command = IF s.flash_in_cont_mode THEN 235 ELSE 0,
                             !.fsm_state = IF s.flash_in_cont_mode
                                           THEN "SEND_ADDR" ELSE "SEND_CMD",
                             !.bit_counter = 0, !.bus_io_in = 0,
                             !.addr = 0, !.data = <<>>]
              ELSE s
    IN  IF ram_cs_n = 0
        THEN [s1 EXCEPT !.is_instr = FALSE, !.fsm_state = "SEND_CMD_QUAD",
                        !.bit_counter = 0, !.bus_io_in = 0,
                        !.command = 0, !.addr = 0, !.data = <<>>]
        ELSE s1

\* the chip-select of the selected path is sampled high
QSPI_deselected(s, flash_cs_n, ram_cs_n) ==
    (s.is_instr /\ flash_cs_n = 1) \/ (~s.is_instr /\ ram_cs_n = 1)

\* a commit that drops an unsupported bit count instead of asserting
QSPI_commit_no_assert(s) ==
    IF ~s.is_instr /\ s.command = 56 /\ s.bit_counter > 0
    THEN IF s.bit_counter = 32
         THEN QSPI_stored(s, write_word_to_memory(s.memory, s.addr, s.data))
         ELSE IF s.bit_counter = 16
         THEN QSPI_stored(s, write_halfword_to_memory(s.memory, s.addr, s.data))
         ELSE IF s.bit_counter = 8
         THEN QSPI_stored(s, write_byte_to_memory(s.memory, s.addr, s.data))
         ELSE s
    ELSE s

\* a commit that does not ask which path is selected
QSPI_commit_any_path(s) ==
    IF s.command = 56 /\ s.bit_counter > 0
    THEN IF s.bit_counter = 32
         THEN QSPI_stored(s, write_word_to_memory(s.memory, s.addr, s.data))
         ELSE IF s.bit_counter = 16
         THEN QSPI_stored(s, write_halfword_to_memory(s.memory, s.addr, s.data))
         ELSE IF s.bit_counter = 8
         THEN QSPI_stored(s, write_byte_to_memory(s.memory, s.addr, s.data))
         ELSE QSPI_raise(s, "AssertionError")
    ELSE s

\* "if not is_instr and command == 0x38": the write committed at deselection
QSPI_commit(s) ==
    IF ~s.is_instr /\ s.command = 56 /\ s.bit_counter > 0
    THEN IF s.bit_counter = 32
         THEN QSPI_stored(s, write_word_to_memory(s.memory, s.addr, s.data))
         ELSE IF s.bit_counter = 16
         THEN QSPI_stored(s, write_halfword_to_memory(s.memory, s.addr, s.data))
         ELSE IF s.bit_counter = 8
         THEN QSPI_stored(s, write_byte_to_memory(s.memory, s.addr, s.data))
         ELSE QSPI_raise(s, "AssertionError")
    ELSE s

\* a deselection that leaves the FSM where it is
QSPI_deselect_stays(s) == QSPI_commit(s)

\* the block run when the selected chip-select is high
QSPI_deselect(s) ==
    LET c == QSPI_commit(s)
    IN  IF c.pc = "done" THEN c ELSE [c EXCEPT !.fsm_state = "IDLE"]

\* FSM_SEND_CMD: one command bit per tick with SCLK high
QSPI_send_cmd(s, sclk, io_out) ==
    IF sclk = 1
    THEN LET s1 == [s EXCEPT !.command = s.command * 2 + (io_out % 2),
                             !.bit_counter = s.bit_counter + 1]
         IN  IF s1.bit_counter = 8
             THEN [s1 EXCEPT !.fsm_state = "SEND_ADDR", !.bit_counter = 0]
             ELSE s1
    ELSE s

\* FSM_SEND_CMD_QUAD: one command nibble per tick with SCLK high
QSPI_send_cmd_quad(s, sclk, io_out) ==
    IF sclk = 1
    THEN LET s1 == [s EXCEPT !.command = s.command * 16 + io_out,
                             !.bit_counter = s.bit_counter + 4]
         IN  IF s1.bit_counter = 8
             THEN [s1 EXCEPT !.fsm_state = "SEND_ADDR", !.bit_counter = 0]
             ELSE s1
    ELSE s

\* the word prefetched at the end of the address phase
QSPI_prefetch(s) ==
    IF read_word_raises(s.addr) THEN QSPI_raise(s, "IndexError")
    ELSE [s EXCEPT !.data = read_word_from_memory(s.memory, s.addr)]

\* a SEND_ADDR phase that never adds the region base
QSPI_send_addr_no_rebase(s, sclk, io_out) ==
    IF sclk = 1
    THEN LET s1 == [s EXCEPT !.addr = s.addr * 16 + io_out,
                             !.bit_counter = s.bit_counter + 4]
         IN  IF s1.bit_counter = 24
             THEN LET s2 == [s1 EXCEPT !.bit_counter = 0]
                  IN  IF s2.is_instr \/ s2.command = 235
                      THEN QSPI_prefetch([s2 EXCEPT !.fsm_state = "DUMMY"])
                      ELSE [s2 EXCEPT !.fsm_state = "DATA_TRANSFER", !.data = <<>>]
             ELSE s1
    ELSE s

\* FSM_SEND_ADDR: one address nibble per tick with SCLK high; after 24 bits
\* the address is rebased and, for a read, the word is prefetched
QSPI_send_addr(s, sclk, io_out) ==
    IF sclk = 1
    THEN LET s1 == [s EXCEPT !.addr = s.addr * 16 + io_out,
                             !.bit_counter = s.bit_counter + 4]
         IN  IF s1.bit_counter = 24
             THEN LET s2 == [s1 EXCEPT !.bit_counter = 0]
                  IN  IF s2.is_instr
                      THEN QSPI_prefetch([s2 EXCEPT !.fsm_state = "DUMMY",
                                                    !.addr = s2.addr + FLASH_BASE_ADDR])
                      ELSE LET s3 == [s2 EXCEPT !.addr = s2.addr + PSRAM_BASE_ADDR]
                           IN  IF s3.command = 235
                               THEN QSPI_prefetch([s3 EXCEPT !.fsm_state = "DUMMY"])
                               ELSE [s3 EXCEPT !.fsm_state = "DATA_TRANSFER", !.data = <<>>]
             ELSE s1
    ELSE s

\* FSM_DUMMY: 6 ticks with SCLK high
QSPI_dummy(s, sclk) ==
    IF sclk = 1
    THEN IF s.bit_counter + 1 = 6
         THEN [s EXCEPT !.fsm_state = "DATA_TRANSFER", !.bit_counter = 0]
         ELSE [s EXCEPT !.bit_counter = s.bit_counter + 1]
    ELSE s

\* ((data & 0xFFFFFFFF) >> (28 - bit_counter)) & 0xF
QSPI_nibble(data, bit_counter) ==
    Digit(data, (28 - bit_counter) \div 4)

\* a read data phase that sends the least-significant nibble first
QSPI_read_instr_lsn_first(s, sclk) ==
    IF sclk = 0 /\ s.spi_clk_high
    THEN LET s1 == [s EXCEPT !.spi_clk_high = FALSE]
         IN  IF s1.fsm_state = "DATA_TRANSFER"
             THEN LET s2 == [s1 EXCEPT !.bus_io_in = QSPI_nibble(s1.data, 28 - s1.bit_counter),
                                       !.bit_counter = s1.bit_counter + 4,
                                       !.flash_in_cont_mode = TRUE]
                  IN  IF s2.bit_counter = 32
                      THEN QSPI_prefetch([s2 EXCEPT !.bit_counter = 0, !.addr = s2.addr + 4])
                      ELSE s2
             ELSE IF s1.fsm_state = "DONE" THEN [s1 EXCEPT !.fsm_state = "IDLE"]
             ELSE s1
    ELSE s

\* the last branch, "if is_instr": a nibble of the prefetched word is driven
\* on each SCLK falling edge, and after 8 nibbles the next word is fetched
QSPI_read_instr(s, sclk) ==
    IF sclk = 0 /\ s.spi_clk_high
    THEN LET s1 == [s EXCEPT !.spi_clk_high = FALSE]
         IN  IF s1.fsm_state = "DATA_TRANSFER"
             THEN LET s2 == [s1 EXCEPT !.bus_io_in = QSPI_nibble(s1.data, s1.bit_counter),
                                       !.bit_counter = s1.bit_counter + 4,
                                       !.flash_in_cont_mode = TRUE]
                  IN  IF s2.bit_counter = 32
                      THEN QSPI_prefetch([s2 EXCEPT !.bit_counter = 0, !.addr = s2.addr + 4])
                      ELSE s2
             ELSE IF s1.fsm_state = "DONE" THEN [s1 EXCEPT !.fsm_state = "IDLE"]
             ELSE s1
    ELSE s

\* the last branch, "elif not is_instr and command == 0xEB": as above, but the
\* word is not fetched again after 8 nibbles
QSPI_read_data(s, sclk) ==
    IF sclk = 0 /\ s.spi_clk_high
    THEN LET s1 == [s EXCEPT !.spi_clk_high = FALSE]
         IN  IF s1.fsm_state = "DATA_TRANSFER"
             THEN LET s2 == [s1 EXCEPT !.bus_io_in = QSPI_nibble(s1.data, s1.bit_counter),
                                       !.bit_counter = s1.bit_counter + 4]
                  IN  IF s2.bit_counter = 32
                      THEN [s2 EXCEPT !.bit_counter = 0, !.addr = s2.addr + 4]
                      ELSE s2
             ELSE IF s1.fsm_state = "DONE" THEN [s1 EXCEPT !.fsm_state = "IDLE"]
             ELSE s1
    ELSE s

\* the last branch, "else": a nibble is shifted into data on each tick with
\* SCLK low, and the word is written after 8 nibbles
QSPI_write_data(s, sclk, io_out) ==
    IF sclk = 0
    THEN IF s.fsm_state = "DATA_TRANSFER"
         THEN LET s1 == [s EXCEPT !.data = ShiftIn(s.data, io_out),
                                  !.bit_counter = s.bit_counter + 4]
              IN  IF s1.bit_counter = 32
                  THEN LET w == QSPI_stored(s1, write_word_to_memory(s1.memory, s1.addr, s1.data))
                       IN  IF w.pc = "done" THEN w ELSE [w EXCEPT !.fsm_state = "DONE"]
                  ELSE s1
         ELSE IF s.fsm_state = "DONE" THEN [s EXCEPT !.fsm_state = "IDLE"]
         ELSE s
    ELSE s

\* the if/elif chain on fsm_state that follows the chip-select test
QSPI_phase(s, sclk, io_out) ==
    IF s.fsm_state = "SEND_CMD" THEN QSPI_send_cmd(s, sclk, io_out)
    ELSE IF s.fsm_state = "SEND_CMD_QUAD" THEN QSPI_send_cmd_quad(s, sclk, io_out)
    ELSE IF s.fsm_state = "SEND_ADDR" THEN QSPI_send_addr(s, sclk, io_out)
    ELSE IF s.fsm_state = "DUMMY" THEN QSPI_dummy(s, sclk)
    ELSE IF s.is_instr THEN QSPI_read_instr(s, sclk)
    ELSE IF s.command = 235 THEN QSPI_read_data(s, sclk)
    ELSE QSPI_write_data(s, sclk, io_out)

\* one iteration of the for loop on the sampled levels
QSPI_tick(s, flash_cs_n, ram_cs_n, sclk, io_out) ==
    IF s.fsm_state = "IDLE"
    THEN QSPI_idle(s, flash_cs_n, ram_cs_n)
    ELSE LET s1 == IF sclk = 1 THEN [s EXCEPT !.spi_clk_high = TRUE] ELSE s
             s2 == IF QSPI_deselected(s1, flash_cs_n, ram_cs_n)
                   THEN QSPI_deselect(s1) ELSE s1
         IN  IF s2.pc = "done" THEN s2 ELSE QSPI_phase(s2, sclk, io_out)

\* history of the emulator: the last operation, what the last tick sampled
\* and the transaction in progress
QSPI_NoHistory(name, mem) ==
    [ name   |-> name,
      from   |-> "IDLE",   \* fsm_state before the tick
      desel  |-> FALSE,    \* the tick sampled the selected chip-select high outside Idle
      consumed |-> FALSE,  \* the tick changed command, addr, data, bit_counter or bus_io_in
      d_instr |-> FALSE,   \* on a deselecting tick: is_instr, command, bit_counter,
      d_command |-> -1,    \*   addr and data before the tick
      d_bits |-> -1,
      d_addr |-> -1,
      d_data |-> <<>>,
      trans  |-> 0,        \* chip-select assertions taken so far
      cont   |-> FALSE,    \* flash_in_cont_mode when the instruction path was selected
      cmd_ticks |-> 0,     \* ticks of the transaction that shifted command bits in
      dummy_ticks |-> 0,   \* ticks of the transaction counted by the dummy phase
      mem0   |-> mem,      \* the memory when the transaction started
      A      |-> -1,       \* the 24-bit address of the transaction, -1 before it is complete
      words  |-> 0,        \* 32-bit data phases driven since the address phase
      drove  |-> FALSE,    \* the tick drove a nibble on bus_io_in
      sclk   |-> -1,       \* the SCLK level the tick sampled, -1 for a tick in Idle
      resume |-> -1 ]      \* addr after the previous instruction-path transaction
                           \*   when it read exactly one word, else -1

QSPI_sampled(h, s, s2, flash_cs_n, ram_cs_n, sclk, io_out) ==
    LET selects == s.fsm_state = "IDLE" /\ s2.fsm_state # "IDLE"
        closes == s.fsm_state # "IDLE" /\ QSPI_deselected(s, flash_cs_n, ram_cs_n)
        addr_done == /\ s.fsm_state = "SEND_ADDR" /\ ~closes /\ sclk = 1
                     /\ s.bit_counter = 20
        reading == s.is_instr \/ s.command = 235
        drives == /\ s.fsm_state = "DATA_TRANSFER" /\ reading /\ ~closes
                  /\ sclk = 0 /\ s.spi_clk_high
        h1 == [h EXCEPT !.name = "tick", !.from = s.fsm_state,
                        !.desel = closes,
                        !.consumed = (s2.pc = "await" /\
                                      <<s2.command, s2.addr, s2.data, s2.bit_counter, s2.bus_io_in>>
                                      # <<s.command, s.addr, s.data, s.bit_counter, s.bus_io_in>>),
                        !.d_instr = closes /\ s.is_instr,
                        !.d_command = IF closes THEN s.command ELSE -1,
                        !.d_bits = IF closes THEN s.bit_counter ELSE -1,
                        !.d_addr = IF closes THEN s.addr ELSE -1,
                        !.d_data = IF closes THEN s.data ELSE <<>>,
                        !.drove = drives,
                        !.sclk = IF s.fsm_state = "IDLE" THEN -1 ELSE sclk]
        h2 == IF selects
              THEN [h1 EXCEPT !.trans = h.trans + 1,
                              !.cont = (s2.is_instr /\ s.flash_in_cont_mode),
                              !.cmd_ticks = 0, !.dummy_ticks = 0,
                              !.mem0 = s.memory, !.A = -1, !.words = 0]
              ELSE IF ~closes /\ sclk = 1 /\ s.fsm_state \in {"SEND_CMD", "SEND_CMD_QUAD"}
              THEN [h1 EXCEPT !.cmd_ticks = h.cmd_ticks + 1]
              ELSE IF ~closes /\ sclk = 1 /\ s.fsm_state = "DUMMY"
              THEN [h1 EXCEPT !.dummy_ticks = h.dummy_ticks + 1]
              ELSE h1
        h3 == IF addr_done THEN [h2 EXCEPT !.A = s.addr * 16 + io_out] ELSE h2
        h4 == IF drives /\ s.bit_counter = 28 THEN [h3 EXCEPT !.words = h.words + 1] ELSE h3
    IN  IF closes /\ s.is_instr
        THEN [h4 EXCEPT !.resume = IF h.words = 1 THEN s.addr ELSE -1]
        ELSE h4

----------------------------------------------------------------------------
(* The free-running specification: the master's levels are arbitrary at      *)
(* every tick, except that the bits it shifts out spell bytes of MasterBytes. *)

\* the bits the slave has collected are the leading bits of a master byte
SpellsMasterByte(s) ==
    s.state \in {"ADDR", "DATA_WRITE"} /\ s.bit_count <= 8 =>
        s.shift_reg \in {Prefix8(b, s.bit_count) : b \in MasterBytes}

InitSPI ==
    /\ spi = SPI_init
    /\ spi_h = SPI_NoHistory("init")

spiVars == <<spi, spi_h>>

InitQSPI ==
    /\ qspi = QSPI_init(ImageMemory)
    /\ qh = QSPI_NoHistory("init", ImageMemory)

\* convert_hex_memory_to_byte_memory({})
InitMem ==
    /\ byte_memory = ZeroMemory
    /\ acc = NoCall("convert_hex_memory_to_byte_memory", ZeroMemory, 0)

\* no wait_for_transfer or wait_for_n_transfers has been called
InitWait == wt = SPI_no_wait

memVars == <<qspi, qh, byte_memory, acc, wt>>

InitI2C ==
    /\ i2c = I2C_init
    /\ i2c_acked = 0
    /\ last = NoTick("init")

NoMaster ==
    /\ m_wave = <<>>
    /\ m_pos = 0
    /\ m_ticks = 0
    /\ m_got = <<>>
    /\ m_short = FALSE
    /\ m_fast = FALSE

Init ==
    /\ InitI2C
    /\ NoMaster
    /\ InitSPI
    /\ InitQSPI
    /\ InitMem
    /\ InitWait

masterVars == <<m_wave, m_pos, m_ticks, m_got, m_short, m_fast>>

\* start_i2c_slave_bfm: bfm.set_tx_data(tx_data) before the BFM is started
SetTxData ==
    /\ i2c.pc = "created"
    /\ \E l \in I2CTxLists : i2c' = I2C_set_tx_data(i2c, l)
    /\ last' = NoTick("set_tx_data")
    /\ UNCHANGED <<memVars, i2c_acked, masterVars, spiVars>>

\* start_i2c_slave_bfm: cocotb.start_soon(bfm.run())
RunBegin ==
    /\ i2c.pc = "created"
    /\ i2c' = I2C_run_begin(i2c)
    /\ last' = NoTick("run")
    /\ UNCHANGED <<memVars, i2c_acked, masterVars, spiVars>>

\* the effect of one clock edge on the slave and on the history
TickWith(scl, sda) ==
    /\ i2c.pc = "await"
    /\ i2c' = I2C_tick(i2c, scl, sda)
    /\ i2c_acked' = IF I2C_acks(i2c, i2c') THEN i2c_acked + 1 ELSE i2c_acked
    /\ last' = I2C_sampled(i2c, scl, sda)

\* one rising edge of the system clock, the master driving arbitrary levels
Tick ==
    /\ \E scl \in Bit, sda \in Bit :
          /\ TickWith(scl, sda)
          /\ SpellsMasterByte(i2c')
          /\ Len(i2c'.rx_bytes) <= MaxRx
    /\ UNCHANGED <<memVars, masterVars, spiVars>>

Next ==
    \/ SetTxData
    \/ RunBegin
    \/ Tick

Spec == Init /\ [][Next]_vars

----------------------------------------------------------------------------
(* Claims about I2CSlaveBFM under arbitrary master levels (Spec). *)

Ticked == last.name = "tick"

\* C1: on every tick that samples a STOP condition, whatever the state before
\* it, the slave ends the tick in IDLE with bit_count = 0, shift_reg = 0,
\* ack_pending cleared and SDA released.
C1_StopForcesIdle ==
    (Ticked /\ last.stop) =>
        /\ i2c.state = "IDLE"
        /\ i2c.bit_count = 0
        /\ i2c.shift_reg = 0
        /\ i2c.ack_pending = FALSE
        /\ i2c.sda_in = 1

\* a STOP sampled while the slave was driving the ACK of a written byte
C1_Witness ==
    /\ Ticked /\ last.stop
    /\ last.from = "ACK_WRITE" /\ last.sda_in = 0
    /\ i2c.state = "IDLE"

\* C2 as stated: every tick that samples a START ends in ADDR with
\* bit_count = 0, shift_reg = 0 and SDA released.
C2_StartForcesAddr_Original ==
    (Ticked /\ last.start) =>
        /\ i2c.state = "ADDR"
        /\ i2c.bit_count = 0
        /\ i2c.shift_reg = 0
        /\ i2c.sda_in = 1

\* C2 amended: every tick that samples a START ends in ADDR with shift_reg = 0
\* and SDA released; bit_count is 0 when SCL was already high at the previous
\* tick and 1 when SCL rose on the same tick (the ADDR branch then counts the
\* tick's SDA level, 0, as the first address bit).
C2_StartForcesAddr ==
    (Ticked /\ last.start) =>
        /\ i2c.state = "ADDR"
        /\ i2c.shift_reg = 0
        /\ i2c.sda_in = 1
        /\ i2c.bit_count = (IF last.rising THEN 1 ELSE 0)

\* a repeated START in the middle of a written byte, SCL stable high
C2_Witness ==
    /\ Ticked /\ last.start /\ ~last.rising
    /\ last.from = "DATA_WRITE" /\ last.bit_count > 0
    /\ i2c.state = "ADDR" /\ i2c.bit_count = 0

\* C4: after the 8th bit of a matching address byte and of every written data
\* byte the slave enters its ACK state on the falling SCL edge, holds SDA low
\* whenever SCL is high in that state, and on the falling edge that ends the
\* ACK clock releases SDA and continues in DATA_WRITE (R/W = 0 or after a data
\* byte) or DATA_READ (R/W = 1).
C4_AckClock ==
    /\ (Ticked /\ last.falling /\ last.from = "ADDR" /\ last.bit_count = 8
            /\ i2c.addr = i2c.address)
          => i2c.state = "ACK_ADDR"
    /\ (Ticked /\ last.falling /\ last.from = "DATA_WRITE" /\ last.bit_count = 8)
          => i2c.state = "ACK_WRITE"
    /\ (i2c.pc = "await" /\ i2c.state \in AckStates /\ i2c.prev_scl = 1)
          => i2c.sda_in = 0
    /\ (Ticked /\ last.falling /\ last.from \in AckStates)
          => /\ last.sda_in = 0
             /\ i2c.sda_in = 1
             /\ i2c.state = (IF last.from = "ACK_ADDR" /\ i2c.rw_bit = 1
                              THEN "DATA_READ" ELSE "DATA_WRITE")

\* the ACK clock of the second recorded byte (a data byte) has just ended
C4_Witness ==
    /\ Ticked /\ last.falling /\ last.from = "ACK_WRITE"
    /\ i2c.state = "DATA_WRITE" /\ i2c.sda_in = 1
    /\ Len(i2c.rx_bytes) = 2

\* outside a transaction the slave stays in IDLE with SDA released until a START
IdleUntilStart ==
    /\ (i2c.state = "IDLE") => i2c.sda_in = 1
    /\ (Ticked /\ last.from = "IDLE" /\ ~last.start)
          => (i2c.state = "IDLE" /\ i2c.sda_in = 1)

\* C5: when the address bits received after a START differ from the slave's
\* address, run() raises nothing, the slave goes to IDLE on the falling SCL
\* edge after the 8th bit and stays there, SDA released, until the next START;
\* SDA is also released during the whole ADDR phase.
C5_AddressMismatch ==
    /\ i2c.error = FALSE
    /\ (i2c.state = "ADDR") => i2c.sda_in = 1
    /\ (Ticked /\ last.falling /\ last.from = "ADDR" /\ last.bit_count = 8
            /\ i2c.addr # i2c.address)
          => (i2c.state = "IDLE" /\ i2c.ack_pending = FALSE)
    /\ IdleUntilStart

\* the address byte of another device has just been refused
C5_Witness ==
    /\ Ticked /\ last.falling /\ last.from = "ADDR" /\ last.bit_count = 8
    /\ i2c.addr # i2c.address
    /\ i2c.state = "IDLE" /\ i2c.sda_in = 1

\* a complete byte is waiting for the falling edge that decides its ACK
AckPendingByte ==
    IF i2c.state \in {"ADDR", "DATA_WRITE"} /\ i2c.bit_count = 8 THEN 1 ELSE 0

\* C6 as stated: rx_bytes holds exactly the acknowledged bytes (and the byte
\* whose ACK clock has not begun yet), so no unacknowledged byte is recorded.
C6_OnlyAckedRecorded_Original ==
    Len(i2c.rx_bytes) = i2c_acked + AckPendingByte

\* the step records the byte whose 8th bit it sampled
RecordsByte ==
    /\ last'.name = "tick" /\ last'.rising
    /\ i2c'.state \in {"ADDR", "DATA_WRITE"}
    /\ i2c'.bit_count = 8

\* C6 amended: rx_bytes is append-only and grows by exactly one byte, the
\* shift register, on every tick that samples the 8th bit of a byte in ADDR or
\* DATA_WRITE, before and whatever the acknowledgement, and on no other tick;
\* every acknowledged byte is therefore recorded once, and so is a complete
\* byte that is not acknowledged (a mismatching address byte, or a data byte
\* followed by START or STOP before its ACK clock).
C6_RecordsEveryCompleteByte ==
    /\ [][ IF RecordsByte
            THEN i2c'.rx_bytes = Append(i2c.rx_bytes, i2c'.shift_reg)
            ELSE i2c'.rx_bytes = i2c.rx_bytes ]_vars
    /\ [](Len(i2c.rx_bytes) >= i2c_acked + AckPendingByte)

\* a refused address byte is in rx_bytes
C6_Witness ==
    /\ Ticked /\ last.falling /\ last.from = "ADDR" /\ last.bit_count = 8
    /\ i2c.state = "IDLE"
    /\ i2c_acked = 0
    /\ Len(i2c.rx_bytes) = 1

----------------------------------------------------------------------------
(* A well-formed I2C master (SpecMaster).  Its transaction is a sequence of  *)
(* (scl, sda) levels; it holds each pair of levels for one tick or more and   *)
(* changes SDA only together with a falling SCL edge or while SCL is low,     *)
(* START and STOP excepted.                                                   *)

\* data bytes the master writes
WriteData == {0, 170, 255}

Lv(scl, sda, tag) == [scl |-> scl, sda |-> sda, tag |-> tag]

\* the 8 clocks of a byte the master shifts out, MSB first
ByteClocks(b) ==
    [i \in 1..16 |-> Lv((i + 1) % 2, BitAt(b, 7 - ((i - 1) \div 2)), "bit")]

\* the 9th clock of a byte the master sent: SDA released for the slave's ACK
AckClock == <<Lv(0, 1, "ack"), Lv(1, 1, "ack")>>

\* the 8 clocks of a byte the master reads: SDA released, sampled on the rising edge
ReadClocks == [i \in 1..16 |-> Lv((i + 1) % 2, 1, IF i % 2 = 0 THEN "data" ELSE "low")]

\* the 9th clock of a byte the master read: ACK (SDA low) or NACK (released)
MasterAck(ack) == <<Lv(0, IF ack THEN 0 ELSE 1, "mack"), Lv(1, IF ack THEN 0 ELSE 1, "mack")>>

StartCond == <<Lv(1, 0, "start")>>
StopCond == <<Lv(0, 0, "stop"), Lv(1, 0, "stop"), Lv(1, 1, "stop")>>

RECURSIVE WriteBody(_)
WriteBody(bytes) ==
    IF bytes = <<>> THEN <<>>
    ELSE ByteClocks(Head(bytes)) \o AckClock \o WriteBody(Tail(bytes))

RECURSIVE ReadBody(_)
ReadBody(n) ==
    IF n = 0 THEN <<>>
    ELSE ReadClocks \o MasterAck(n > 1) \o ReadBody(n - 1)

\* START, (Address << 1) | 0, the data bytes, STOP
WriteWave(data) ==
    StartCond \o WriteBody(<<2 * Address>> \o data) \o StopCond

\* START, (Address << 1) | 1, n bytes read (the last one NACKed), STOP
ReadWave(n) ==
    StartCond \o ByteClocks(2 * Address + 1) \o AckClock \o ReadBody(n) \o StopCond

RECURSIVE ReadBodyAcked(_)
ReadBodyAcked(n) ==
    IF n = 0 THEN <<>>
    ELSE ReadClocks \o MasterAck(TRUE) \o ReadBodyAcked(n - 1)

\* START, (Address << 1) | 1, n bytes read and every one of them ACKed, STOP
ReadAckedWave(n) ==
    StartCond \o ByteClocks(2 * Address + 1) \o AckClock \o ReadBodyAcked(n) \o StopCond

DataLists ==
    UNION {[1..n -> WriteData] : n \in 0..MaxData}

Waves ==
    {WriteWave(d) : d \in DataLists} \cup {ReadWave(n) : n \in 1..MaxData}
        \cup {ReadAckedWave(1)}

\* the levels the master drives at position p of its wave (0: the idle bus)
MasterLevels(p) == IF p = 0 THEN Lv(1, 1, "idle") ELSE m_wave[p]

InitMaster ==
    /\ InitI2C
    /\ m_wave \in Waves
    /\ m_pos = 0
    /\ m_ticks = 1
    /\ m_got = <<>>
    /\ m_short = FALSE
    /\ m_fast = FALSE
    /\ InitSPI
    /\ InitQSPI
    /\ InitMem
    /\ InitWait

\* one rising edge of the system clock: the master holds its levels or moves
\* to the next ones, and the slave's run() loop makes one iteration
MasterTick ==
    \E adv \in BOOLEAN :
        LET p == IF adv THEN m_pos + 1 ELSE m_pos
            lv == MasterLevels(p)
            first == adv /\ lv.tag = "data" /\ m_got = <<>>
        IN  /\ adv => m_pos < Len(m_wave)
            /\ TickWith(lv.scl, lv.sda)
            /\ m_pos' = p
            /\ m_ticks' = IF adv THEN 1 ELSE 2
            /\ m_got' = IF adv /\ lv.tag = "data"
                         THEN Append(m_got, i2c.sda_in) ELSE m_got
            /\ m_short' = (m_short \/ (first /\ m_ticks = 1))
            /\ m_fast' = (m_fast \/ (adv /\ m_pos > 0 /\ m_ticks = 1))
            /\ UNCHANGED <<memVars, m_wave, spiVars>>

NextMaster ==
    \/ SetTxData
    \/ RunBegin
    \/ MasterTick

SpecMaster == InitMaster /\ [][NextMaster]_vars

\* the bits the master shifts out in its wave, in order
SentBits == SelectSeq(m_wave, LAMBDA e : e.tag = "bit" /\ e.scl = 1)

\* byte j (from 1) of the wave, assembled MSB first
SentByte(j) ==
    LET b(k) == SentBits[8 * (j - 1) + k].sda
    IN  128 * b(1) + 64 * b(2) + 32 * b(3) + 16 * b(4) + 8 * b(5) + 4 * b(6) + 2 * b(7) + b(8)

SentBytes == [j \in 1..(Len(SentBits) \div 8) |-> SentByte(j)]

IsWrite == SentByte(1) % 2 = 0
MasterDone == m_pos = Len(m_wave)

\* C3: when a write transaction addressed to the slave has ended with its
\* STOP, rx_bytes (empty before the transaction) is exactly the address byte
\* followed by the data bytes the master shifted out, MSB first, in order;
\* while it runs rx_bytes is a prefix of these bytes.
C3_WriteReceived ==
    IsWrite =>
        /\ Len(i2c.rx_bytes) <= Len(SentBytes)
        /\ i2c.rx_bytes = SubSeq(SentBytes, 1, Len(i2c.rx_bytes))
        /\ MasterDone => i2c.rx_bytes = SentBytes

\* a finished write of two data bytes
C3_Witness ==
    /\ IsWrite /\ MasterDone
    /\ i2c.rx_bytes = <<66, 170, 255>>
    /\ i2c.state = "IDLE"

\* the TX byte the slave shifts out as the j-th byte (from 0) of the first read
TxByteAt(j) ==
    IF j < Len(i2c.tx_bytes) THEN i2c.tx_bytes[j + 1] % 256 ELSE 255

\* the level bit i (from 1) of the read data must have: byte by byte, MSB first
ExpectedBit(i) == BitAt(TxByteAt((i - 1) \div 8), 7 - ((i - 1) % 8))

\* C7 as stated: at every rising SCL edge of a read data bit the slave drives
\* the corresponding bit of the current TX byte.
C7_ReadBits_Original ==
    \A i \in 1..Len(m_got) : m_got[i] = ExpectedBit(i)

\* C7 amended: at the (k+1)-th rising SCL edge of a read byte the slave drives
\* bit (7-k) of the current TX byte, provided SCL was low for at least two
\* ticks before the first data bit of the transaction; when SCL rises one tick
\* after the falling edge that ended the address ACK clock, the slave has not
\* driven the first bit yet and SDA is still released (1).
C7_ReadBits ==
    \A i \in 1..Len(m_got) :
        m_got[i] = (IF i = 1 /\ m_short THEN 1 ELSE ExpectedBit(i))

\* a finished read of two bytes from a one-byte TX list: 0x3C, then 0xFF
C7_Witness ==
    /\ ~IsWrite /\ MasterDone /\ ~m_short
    /\ i2c.tx_bytes = <<60>>
    /\ m_got = <<0, 0, 1, 1, 1, 1, 0, 0, 1, 1, 1, 1, 1, 1, 1, 1>>

----------------------------------------------------------------------------
(* SPISlaveBFM under arbitrary master levels (SpecSPI). *)

i2cVars == <<i2c, i2c_acked, last>>

\* the bits sampled since the last reset of rx_byte are leading bits of a MOSI word
SpellsMosiWord(s) ==
    s.rx_byte \in {w \div Pow2(9 - k) : w \in MosiWords, k \in 0..9}

InitSpecSPI ==
    /\ InitI2C
    /\ NoMaster
    /\ InitSPI
    /\ InitQSPI
    /\ InitMem
    /\ InitWait

\* start_spi_slave_bfm: bfm.set_tx_data(tx_data) before the BFM is started
SPISetTxData ==
    /\ spi.pc = "created"
    /\ \E l \in SpiTxLists : spi' = SPI_set_tx_data(spi, l)
    /\ spi_h' = SPI_NoHistory("set_tx_data")
    /\ UNCHANGED <<memVars, i2cVars, masterVars>>

\* start_spi_slave_bfm: cocotb.start_soon(bfm.run())
SPIRunBegin ==
    /\ spi.pc = "created"
    /\ spi' = SPI_run_begin(spi)
    /\ spi_h' = SPI_NoHistory("run")
    /\ UNCHANGED <<memVars, i2cVars, masterVars>>

\* one rising edge of the system clock, the master driving arbitrary levels
SPITick ==
    /\ spi.pc = "await"
    /\ \E cs_n \in Bit, sclk \in Bit, mosi \in Bit :
          /\ spi' = SPI_tick(spi, cs_n, sclk, mosi)
          /\ spi_h' = SPI_sampled(spi_h, spi, cs_n, sclk)
    /\ SpellsMosiWord(spi')
    /\ Len(spi'.rx_buffer) <= MaxSpiRx
    /\ UNCHANGED <<memVars, i2cVars, masterVars>>

NextSPI ==
    \/ SPISetTxData
    \/ SPIRunBegin
    \/ SPITick

SpecSPI == InitSpecSPI /\ [][NextSPI]_vars

\* C10: when a chip-select assertion that began with a CS falling edge ends
\* with a CS rising edge, rx_buffer has grown by one byte if exactly 8 SCLK
\* rising edges were sampled while CS was asserted, and has not grown otherwise.
C10_ByteIffEightRises ==
    spi_h.closed =>
        Len(spi.rx_buffer) - spi_h.len0 = (IF spi_h.rises = 8 THEN 1 ELSE 0)

\* C11: every tick that samples a CS rising edge ends with bit_count = 0,
\* rx_byte = 0 and MISO driven to 0; when fewer than 8 SCLK rising edges were
\* sampled since the CS falling edge, that tick leaves rx_buffer unchanged.
C11_CsRiseResets ==
    (spi_h.name = "tick" /\ spi_h.cs_rise) =>
        /\ spi.bit_count = 0
        /\ spi.rx_byte = 0
        /\ spi.miso = 0
        /\ (spi_h.closed /\ spi_h.rises < 8) =>
               Len(spi.rx_buffer) = spi_h.lenpre

----------------------------------------------------------------------------
(* The SPI slave under a well-formed Mode-0 master: the chip-select idles     *)
(* high, each transfer asserts it with SCLK low, clocks 8 pulses and          *)
(* deasserts it; every level is held for one or more system-clock ticks.      *)

MaxXfer == 2
MosiBytes == {170, 77}
SpiMasterTxLists == {<<>>, <<187>>, <<60, 187>>}

SLv(cs_n, sclk, mosi, tag) == [cs_n |-> cs_n, sclk |-> sclk, mosi |-> mosi, tag |-> tag]

\* the 8 pulses of byte b: MOSI valid before each rising edge, changed on the falling edge
SpiPulses(b) ==
    [i \in 1..16 |-> IF i % 2 = 1
                     THEN SLv(0, 1, BitAt(b, 7 - ((i - 1) \div 2)), "rise")
                     ELSE SLv(0, 0, IF i = 16 THEN 0 ELSE BitAt(b, 7 - (i \div 2)), "fall")]

SpiTransfer(b) ==
    <<SLv(0, 0, BitAt(b, 7), "sel")>> \o SpiPulses(b) \o <<SLv(1, 0, 0, "end")>>

RECURSIVE SpiWave(_)
SpiWave(bytes) ==
    IF bytes = <<>> THEN <<>> ELSE SpiTransfer(Head(bytes)) \o SpiWave(Tail(bytes))

SpiByteLists == UNION {[1..n -> MosiBytes] : n \in 1..MaxXfer}

SpiWaves == {SpiWave(l) : l \in SpiByteLists}

\* the levels the SPI master drives at position p of its wave (0: the idle bus)
SpiMasterLevels(p) == IF p = 0 THEN SLv(1, 0, 0, "idle") ELSE m_wave[p]

InitSPIMaster ==
    /\ InitI2C
    /\ InitSPI
    /\ InitQSPI
    /\ InitMem
    /\ InitWait
    /\ m_wave \in SpiWaves
    /\ m_pos = 0
    /\ m_ticks = 0
    /\ m_got = <<>>
    /\ m_short = FALSE
    /\ m_fast = FALSE

\* start_spi_slave_bfm: bfm.set_tx_data(tx_data) before the BFM is started
SPIMasterSetTxData ==
    /\ spi.pc = "created"
    /\ \E l \in SpiMasterTxLists : spi' = SPI_set_tx_data(spi, l)
    /\ spi_h' = SPI_NoHistory("set_tx_data")
    /\ UNCHANGED <<memVars, i2cVars, masterVars>>

\* one rising edge of the system clock: the master holds its levels or moves
\* to the next ones (the idle bus is sampled at least once), and the slave's
\* run() loop makes one iteration; m_got collects the MISO level present at
\* each SCLK rising edge
SPIMasterTick ==
    /\ spi.pc = "await"
    /\ \E adv \in BOOLEAN :
        LET p == IF adv THEN m_pos + 1 ELSE m_pos
            lv == SpiMasterLevels(p)
        IN  /\ adv => (m_pos < Len(m_wave) /\ m_ticks >= 1)
            /\ spi' = SPI_tick(spi, lv.cs_n, lv.sclk, lv.mosi)
            /\ spi_h' = SPI_sampled(spi_h, spi, lv.cs_n, lv.sclk)
            /\ m_pos' = p
            /\ m_ticks' = IF adv \/ m_ticks = 0 THEN 1 ELSE 2
            /\ m_got' = IF adv /\ lv.tag = "rise" THEN Append(m_got, spi.miso) ELSE m_got
            /\ UNCHANGED <<memVars, m_wave, m_short, m_fast, i2cVars>>

NextSPIMaster ==
    \/ SPIMasterSetTxData
    \/ SPIRunBegin
    \/ SPIMasterTick

SpecSPIMaster == InitSPIMaster /\ [][NextSPIMaster]_vars

\* the MOSI levels the master presents at the rising edges passed so far
SpiSentBits ==
    LET done == SubSeq(m_wave, 1, m_pos)
        r == SelectSeq(done, LAMBDA e : e.tag = "rise")
    IN  [i \in 1..Len(r) |-> r[i].mosi]

\* the byte spelled MSB first by bits 8k+1 .. 8k+8 of the bit sequence b
BitsByte(b, k) ==
    LET RECURSIVE Val(_)
        Val(n) == IF n = 0 THEN 0 ELSE 2 * Val(n - 1) + b[8 * k + n]
    IN  Val(8)

\* the byte the slave transmits in transfer k (counted from 0)
SpiTxByteAt(k) ==
    IF k < Len(spi.tx_buffer) THEN spi.tx_buffer[k + 1] ELSE 255

\* C12: with the TX sequence configured before the BFM is started, after every
\* well-formed transfer rx_buffer holds one byte per transfer, each spelled MSB
\* first by the 8 MOSI levels of its rising edges, and the MISO level present
\* at the j-th rising edge of transfer k is bit 7-j of tx_buffer[k] (0xFF once
\* the TX sequence is exhausted), the MSB being driven before the first edge.
C12_WellFormedTransfer ==
    /\ \A i \in 1..Len(m_got) :
          m_got[i] = BitAt(SpiTxByteAt((i - 1) \div 8), 7 - ((i - 1) % 8))
    /\ (m_pos > 0 /\ m_wave[m_pos].tag = "end") =>
          /\ Len(spi.rx_buffer) = Len(SpiSentBits) \div 8
          /\ \A k \in 0..(Len(spi.rx_buffer) - 1) :
                spi.rx_buffer[k + 1] = BitsByte(SpiSentBits, k)

\* two transfers done with a one-byte TX sequence: the second byte read is 0xFF
C12_Witness ==
    /\ m_pos = Len(m_wave)
    /\ spi.rx_buffer = <<170, 77>>
    /\ spi.tx_buffer = <<187>>
    /\ Len(m_got) = 16
    /\ BitsByte(m_got, 0) = 187
    /\ BitsByte(m_got, 1) = 255

----------------------------------------------------------------------------
(* The TX cursors of both BFMs (SpecTx): the harness configures TX lists and  *)
(* the BFMs fetch bytes, in any order.                                        *)

InitTx ==
    /\ InitI2C
    /\ NoMaster
    /\ InitSPI
    /\ InitQSPI
    /\ InitMem
    /\ InitWait

\* I2CSlaveBFM.set_tx_data(l)
TxI2CSet ==
    /\ \E l \in TxLists : i2c' = I2C_set_tx_data(i2c, l)
    /\ last' = NoTick("set_tx_data")
    /\ UNCHANGED <<memVars, i2c_acked, masterVars, spiVars>>

\* self.shift_reg = self._get_next_tx_byte(), as run() does in ACK_ADDR and READ_WAIT_ACK
TxI2CFetch ==
    /\ i2c' = I2C_load_tx(i2c)
    /\ last' = [NoTick("fetch") EXCEPT !.tx_index = i2c.tx_index]
    /\ UNCHANGED <<memVars, i2c_acked, masterVars, spiVars>>

\* SPISlaveBFM.set_tx_data(l)
TxSPISet ==
    /\ \E l \in TxLists : spi' = SPI_set_tx_data(spi, l)
    /\ spi_h' = SPI_NoHistory("set_tx_data")
    /\ UNCHANGED <<memVars, i2cVars, masterVars>>

\* SPISlaveBFM.clear_tx_buffer()
TxSPIClear ==
    /\ spi' = SPI_clear_tx_buffer(spi)
    /\ spi_h' = SPI_NoHistory("clear_tx_buffer")
    /\ UNCHANGED <<memVars, i2cVars, masterVars>>

\* SPISlaveBFM.get_next_tx_byte()
TxSPIFetch ==
    /\ spi' = SPI_get_next_tx_byte(spi)
    /\ spi_h' = [SPI_NoHistory("fetch") EXCEPT !.tx_byte_index = spi.tx_byte_index]
    /\ UNCHANGED <<memVars, i2cVars, masterVars>>

NextTx ==
    \/ TxI2CSet
    \/ TxI2CFetch
    \/ TxSPISet
    \/ TxSPIClear
    \/ TxSPIFetch

SpecTx == InitTx /\ [][NextTx]_vars

\* C9: in both BFMs the TX cursor stays within 0..length of the TX list, and a
\* fetch made with the cursor at the end of the list (or with no list
\* configured) yields 0xFF, raises nothing and leaves the cursor where it is.
C9_TxExhausted ==
    /\ 0 <= i2c.tx_index /\ i2c.tx_index <= Len(i2c.tx_bytes)
    /\ 0 <= spi.tx_byte_index /\ spi.tx_byte_index <= Len(spi.tx_buffer)
    /\ i2c.error = FALSE
    /\ (last.name = "fetch" /\ last.tx_index = Len(i2c.tx_bytes))
          => (i2c.shift_reg = 255 /\ i2c.tx_index = last.tx_index)
    /\ (spi_h.name = "fetch" /\ spi_h.tx_byte_index = Len(spi.tx_buffer))
          => (spi.tx_byte = 255 /\ spi.tx_byte_index = spi_h.tx_byte_index)

\* fetches from the exhausted, non-empty TX lists of both slaves
C9_Witness ==
    /\ last.name = "fetch"
    /\ Len(i2c.tx_bytes) = 1 /\ last.tx_index = 1
    /\ i2c.shift_reg = 255 /\ i2c.tx_index = 1
    /\ spi_h.name = "fetch"
    /\ Len(spi.tx_buffer) = 2 /\ spi_h.tx_byte_index = 2
    /\ spi.tx_byte = 255 /\ spi.tx_byte_index = 2

----------------------------------------------------------------------------
(* The flash/PSRAM emulator under arbitrary levels (SpecQSPI): at every tick  *)
(* the master drives any chip-selects, clock level and nibble, except that    *)
(* the command, address and write data it shifts in spell values of small     *)
(* sets.                                                                      *)

\* chip-select assertions per behaviour
MaxTrans == 2
\* 32-bit data phases read per transaction
MaxWords == 2

\* opcodes the master sends on the data path: 0xEB, 0x38, 0x03, 0x02
Commands == {235, 56, 3, 2}
\* opcodes the master sends on the instruction path: 0xEB, 0x03
FlashCommands == {235, 3}
\* 24-bit addresses the master sends: 0x000010, 0x000014, 0xFFFFFF
Addrs == {16, 20, 16777215}
\* words the master writes, as hexadecimal digits: 0xA1B2C3D4
DataWords == {<<10, 1, 11, 2, 12, 3, 13, 4>>}

Nibble == 0..15

\* the bits shifted in so far are leading bits of the values the master sends
SpellsQSPI(s) ==
    /\ s.fsm_state = "SEND_CMD" =>
          s.command \in {c \div Pow2(8 - s.bit_counter) : c \in FlashCommands}
    /\ s.fsm_state = "SEND_CMD_QUAD" =>
          s.command \in {c \div Pow2(8 - s.bit_counter) : c \in Commands}
    /\ s.fsm_state = "SEND_ADDR" =>
          /\ s.command \in (IF s.is_instr THEN FlashCommands ELSE Commands)
          /\ s.addr \in {a \div Pow2(24 - s.bit_counter) : a \in Addrs}
    /\ (s.fsm_state \in {"DATA_TRANSFER", "DONE"} /\ ~s.is_instr /\ s.command # 235) =>
          s.data \in {SubSeq(d, 1, s.bit_counter \div 4) : d \in DataWords}

\* the master's nibble is sampled by a tick in state s on the clock level sclk
QSPI_samples(s, flash_cs_n, ram_cs_n, sclk) ==
    /\ s.fsm_state # "IDLE"
    /\ ~QSPI_deselected(s, flash_cs_n, ram_cs_n)
    /\ \/ s.fsm_state \in {"SEND_CMD", "SEND_CMD_QUAD", "SEND_ADDR"} /\ sclk = 1
       \/ s.fsm_state = "DATA_TRANSFER" /\ ~s.is_instr /\ s.command # 235 /\ sclk = 0

\* the nibbles the master drives: any nibble when the tick samples it, and
\* 0 when it does not (the level is not read)
IoOut(s, flash_cs_n, ram_cs_n, sclk) ==
    IF QSPI_samples(s, flash_cs_n, ram_cs_n, sclk) THEN Nibble ELSE {0}

InitSpecQSPI ==
    /\ InitI2C
    /\ NoMaster
    /\ InitSPI
    /\ InitQSPI
    /\ InitMem
    /\ InitWait

otherVars == <<i2cVars, masterVars, spiVars, byte_memory, acc, wt>>

\* one iteration of the for loop, the callback returning False
QSPITick ==
    /\ qspi.pc = "await"
    /\ \E flash_cs_n \in Bit, ram_cs_n \in Bit, sclk \in Bit :
       \E io_out \in IoOut(qspi, flash_cs_n, ram_cs_n, sclk) :
          /\ qspi' = QSPI_tick(qspi, flash_cs_n, ram_cs_n, sclk, io_out)
          /\ qh' = QSPI_sampled(qh, qspi, qspi', flash_cs_n, ram_cs_n, sclk, io_out)
    /\ SpellsQSPI(qspi')
    /\ qh'.A \in Addrs \cup {-1}
    /\ qh'.trans <= MaxTrans
    /\ qh'.words <= MaxWords
    /\ UNCHANGED otherVars

\* the callback returns True after an iteration: the coroutine returns
QSPIReturn ==
    /\ qspi.pc = "await"
    /\ qh.name = "tick"
    /\ qspi' = QSPI_end(qspi, "")
    /\ qh' = QSPI_NoHistory("return", qspi.memory)
    /\ UNCHANGED otherVars

\* max_cycles iterations have run: "assert False, 'Failed'"
QSPIFailed ==
    /\ qspi.pc = "await"
    /\ qh.name = "tick"
    /\ qspi' = QSPI_raise(qspi, "Failed")
    /\ qh' = QSPI_NoHistory("failed", qspi.memory)
    /\ UNCHANGED otherVars

NextQSPI ==
    \/ QSPITick
    \/ QSPIReturn
    \/ QSPIFailed

SpecQSPI == InitSpecQSPI /\ [][NextQSPI]_vars

QTicked == qh.name = "tick"

\* the store committed at a deselection reaches beyond the memory array
CommitOutOfRange == ~InRange(qh.d_addr + (qh.d_bits \div 8) - 1)

\* the deselecting tick runs the commit of a data-path write (opcode 0x38)
CommitsWrite == ~qh.d_instr /\ qh.d_command = 56 /\ qh.d_bits > 0

\* C13 as stated: every tick that samples the selected chip-select high
\* outside Idle leaves the FSM in Idle and consumes no bits.
C13_DeselectIdle_Original ==
    (QTicked /\ qh.desel) =>
        /\ qspi.pc = "await"
        /\ qspi.fsm_state = "IDLE"
        /\ ~qh.consumed

\* C13 amended: every tick that samples the selected chip-select high outside
\* Idle consumes no command, address or data bits and leaves the FSM in Idle,
\* unless the commit of a data-path write (opcode 0x38) raises on that tick:
\* AssertionError for an accumulated bit count other than 8, 16 or 32,
\* IndexError for a store that reaches beyond the memory array; the coroutine
\* then ends instead.
C13_DeselectIdle ==
    (QTicked /\ qh.desel) =>
        /\ ~qh.consumed
        /\ IF CommitsWrite /\ qh.d_bits \notin {8, 16, 32}
           THEN qspi.pc = "done" /\ qspi.raised = "AssertionError"
           ELSE IF CommitsWrite /\ CommitOutOfRange
           THEN qspi.pc = "done" /\ qspi.raised = "IndexError"
           ELSE qspi.pc = "await" /\ qspi.fsm_state = "IDLE"

\* a transaction abandoned in the middle of its address phase
C13_Witness ==
    /\ QTicked /\ qh.desel
    /\ qh.from = "SEND_ADDR"
    /\ qh.d_bits = 12
    /\ qspi.pc = "await"
    /\ qspi.fsm_state = "IDLE"

\* the word and the nibble of the data phase that the last tick drove
DroveNibble == IF qspi.bit_counter = 0 THEN 7 ELSE (qspi.bit_counter \div 4) - 1
DroveWord == IF qspi.bit_counter = 0 THEN qh.words - 1 ELSE qh.words

\* the nibble that a read of the transaction's address is expected to drive
ExpectedNibble(base) ==
    Digit(read_word_from_memory(qspi.memory, base + qh.A + 4 * DroveWord), 7 - DroveNibble)

\* C14: on the instruction path outside continuous mode, every nibble driven
\* comes after 8 command bits, the 6 address nibbles of A and 6 dummy clocks,
\* and the k-th nibble of the j-th data phase is nibble 7-k (most-significant
\* first) of read_word_from_memory(mem, FLASH_BASE_ADDR + A + 4*j).
C14_FlashRead ==
    (QTicked /\ qh.drove /\ qspi.is_instr /\ ~qh.cont) =>
        /\ qh.cmd_ticks = 8
        /\ qh.A \in Addrs
        /\ qh.dummy_ticks = 6
        /\ qspi.bus_io_in = ExpectedNibble(FLASH_BASE_ADDR)
        /\ qspi.addr = FLASH_BASE_ADDR + qh.A + 4 * qh.words

\* the last nibble of the second data phase of a read at 0x000010
C14_Witness ==
    /\ QTicked /\ qh.drove /\ qspi.is_instr /\ ~qh.cont
    /\ qh.A = 16
    /\ qh.words = 2
    /\ qspi.bit_counter = 0
    /\ qspi.bus_io_in = ImageByte(16 + 7) % 16

\* the instruction path was selected on the last tick
FlashSelected ==
    QTicked /\ qh.from = "IDLE" /\ qspi.fsm_state # "IDLE" /\ qspi.is_instr

\* C15 as stated: an access in continuous mode that follows a one-word read
\* at A drives the word at A + 4.
C15_ContinuousRead_Original ==
    (QTicked /\ qh.drove /\ qspi.is_instr /\ qh.cont /\ qh.resume # -1 /\ DroveWord = 0) =>
        qspi.bus_io_in = Digit(read_word_from_memory(qspi.memory, qh.resume), 7 - DroveNibble)

\* C15 amended: once a nibble has been driven on the instruction path, every
\* later instruction access goes from Idle to SendAddr with command 0xEB and
\* addr = 0, without a command phase; it reads a new 24-bit address B in 6
\* nibbles and, after 6 dummy clocks, drives
\* read_word_from_memory(mem, FLASH_BASE_ADDR + B + 4*j) in its j-th data
\* phase, whatever the address of the previous access was.
C15_ContinuousRead ==
    /\ FlashSelected =>
          IF qh.cont
          THEN qspi.fsm_state = "SEND_ADDR" /\ qspi.command = 235 /\ qspi.addr = 0
          ELSE qspi.fsm_state = "SEND_CMD"
    /\ (QTicked /\ qh.drove /\ qspi.is_instr) => qspi.flash_in_cont_mode
    /\ (QTicked /\ qh.drove /\ qspi.is_instr /\ qh.cont) =>
          /\ qh.cmd_ticks = 0
          /\ qh.A \in Addrs
          /\ qh.dummy_ticks = 6
          /\ qspi.bus_io_in = ExpectedNibble(FLASH_BASE_ADDR)

\* a one-word read at 0x000010 followed by an access in continuous mode that
\* sends the address 0x000010 again, not 0x000014
C15_Witness ==
    /\ QTicked /\ qh.drove /\ qspi.is_instr /\ qh.cont
    /\ qh.resume = 20
    /\ qh.A = 16
    /\ qh.words = 1
    /\ qspi.bit_counter = 0

\* the last tick deselected a data-path transaction with opcode op in its data phase
DataDeselected(op) ==
    /\ QTicked /\ qh.desel /\ ~qh.d_instr
    /\ qh.d_command = op
    /\ qh.from \in {"DATA_TRANSFER", "DONE"}

\* C16: a data-path write with opcode 0x02 to address A that is deselected
\* after 8 data bits leaves the memory as it was when the transaction started,
\* except for the byte at PSRAM_BASE_ADDR + A, which holds the 8 bits.
C16_ByteWrite0x02 ==
    (DataDeselected(2) /\ qh.d_bits = 8) =>
        /\ qh.d_addr = PSRAM_BASE_ADDR + qh.A
        /\ qspi.memory = MemStore(qh.mem0, qh.d_addr, ByteOf(qh.d_data, 0))

C18_OnlyBadBitCountIsFatal ==
    (qspi.pc = "done" /\ qspi.raised \notin {"", "Failed"}) =>
        /\ qspi.raised = "AssertionError"
        /\ qh.desel /\ ~qh.d_instr
        /\ qh.d_bits \notin {8, 16, 32}

\* C19: while a data-path transaction whose opcode is a read opcode (0x03 or
\* 0xEB) is in progress, the memory is as it was when the transaction started.
C19_ReadOpcodesKeepMemory ==
    (/\ qspi.pc = "await" /\ ~qspi.is_instr
     /\ qspi.fsm_state \in {"SEND_ADDR", "DUMMY", "DATA_TRANSFER", "DONE"}
     /\ qspi.command \in {3, 235}) =>
        qspi.memory = qh.mem0

----------------------------------------------------------------------------
(* The memory accessors on their own: a test builds a bytearray with          *)
(* convert_hex_memory_to_byte_memory and calls the read and write accessors   *)
(* on it in any order.                                                        *)

\* most write accessor calls on one bytearray
MaxWrites == 2
\* addresses the accessors are called with: 0, 1 and the last two bytes of
\* the array
AccAddrs == {0, 1, MemSize - 2}
\* values handed to the write accessors, as hexadecimal digits: 0x13,
\* 0xA1B2C3D4 and the 33-bit 0x1A1B2C3D4
AccData == {<<1, 3>>, <<10, 1, 11, 2, 12, 3, 13, 4>>, <<1, 10, 1, 11, 2, 12, 3, 13, 4>>}
\* the hex_memory dictionaries, as their items in order
HexMemories ==
    {<<>>, << <<0, <<1, 3>> >> >>,
     << <<0, <<1, 3>> >>, <<4, <<10, 1, 11, 2, 12, 3, 13, 4>> >> >>}

InitSpecMem ==
    /\ InitI2C
    /\ NoMaster
    /\ InitSPI
    /\ InitQSPI
    /\ InitMem
    /\ InitWait

nonMemVars == <<i2cVars, masterVars, spiVars, qspi, qh, wt>>

\* byte_memory = convert_hex_memory_to_byte_memory(hex_memory)
ConvertHexMemory ==
    /\ \E hex_memory \in HexMemories :
          LET r == convert_hex_memory_to_byte_memory(hex_memory)
          IN  /\ byte_memory' = r.memory
              /\ acc' = [NoCall("convert_hex_memory_to_byte_memory", byte_memory, 0)
                            EXCEPT !.data = hex_memory, !.raised = r.raised]
    /\ UNCHANGED nonMemVars

\* read_word_from_memory(byte_memory, addr)
ReadWord ==
    /\ \E addr \in AccAddrs :
          acc' = [NoCall("read_word_from_memory", byte_memory, acc.writes) EXCEPT
                     !.addr = addr,
                     !.raised = read_word_raises(addr),
                     !.result = IF read_word_raises(addr) THEN <<>>
                                ELSE read_word_from_memory(byte_memory, addr)]
    /\ UNCHANGED <<byte_memory, nonMemVars>>

\* read_halfword_from_memory(byte_memory, addr)
ReadHalfword ==
    /\ \E addr \in AccAddrs :
          LET raises == ~(InRange(addr) /\ InRange(addr + 1))
          IN  acc' = [NoCall("read_halfword_from_memory", byte_memory, acc.writes) EXCEPT
                         !.addr = addr,
                         !.raised = raises,
                         !.result = IF raises THEN <<>>
                                    ELSE read_halfword_from_memory(byte_memory, addr)]
    /\ UNCHANGED <<byte_memory, nonMemVars>>

\* read_byte_from_memory(byte_memory, addr)
ReadByte ==
    /\ \E addr \in AccAddrs :
          acc' = [NoCall("read_byte_from_memory", byte_memory, acc.writes) EXCEPT
                     !.addr = addr,
                     !.raised = ~InRange(addr),
                     !.result = IF ~InRange(addr) THEN <<>>
                                ELSE WordOf(0, 0, 0, read_byte_from_memory(byte_memory, addr))]
    /\ UNCHANGED <<byte_memory, nonMemVars>>

\* write_word_to_memory(byte_memory, addr, data)
WriteWord ==
    /\ acc.writes < MaxWrites
    /\ \E addr \in AccAddrs, data \in AccData :
          LET r == write_word_to_memory(byte_memory, addr, data)
          IN  /\ byte_memory' = r.memory
              /\ acc' = [NoCall("write_word_to_memory", byte_memory, acc.writes + 1) EXCEPT
                            !.addr = addr, !.data = data, !.raised = r.raised]
    /\ UNCHANGED nonMemVars

\* write_halfword_to_memory(byte_memory, addr, data)
WriteHalfword ==
    /\ acc.writes < MaxWrites
    /\ \E addr \in AccAddrs, data \in AccData :
          LET r == write_halfword_to_memory(byte_memory, addr, data)
          IN  /\ byte_memory' = r.memory
              /\ acc' = [NoCall("write_halfword_to_memory", byte_memory, acc.writes + 1) EXCEPT
                            !.addr = addr, !.data = data, !.raised = r.raised]
    /\ UNCHANGED nonMemVars

\* write_byte_to_memory(byte_memory, addr, data)
WriteByte ==
    /\ acc.writes < MaxWrites
    /\ \E addr \in AccAddrs, data \in AccData :
          LET r == write_byte_to_memory(byte_memory, addr, data)
          IN  /\ byte_memory' = r.memory
              /\ acc' = [NoCall("write_byte_to_memory", byte_memory, acc.writes + 1) EXCEPT
                            !.addr = addr, !.data = data, !.raised = r.raised]
    /\ UNCHANGED nonMemVars

NextMem ==
    \/ ConvertHexMemory
    \/ ReadWord
    \/ ReadHalfword
    \/ ReadByte
    \/ WriteWord
    \/ WriteHalfword
    \/ WriteByte

SpecMem == InitSpecMem /\ [][NextMem]_vars

\* C20: the accessors are little-endian.  A word read is
\* mem[a] + 2^8*mem[a+1] + 2^16*mem[a+2] + 2^24*mem[a+3], a halfword read is
\* mem[a] + 2^8*mem[a+1], the write accessors store the least-significant
\* byte of the value at the lowest address, and a word placed at a by
\* convert_hex_memory_to_byte_memory is what read_word_from_memory returns
\* at a.
C20_LittleEndian ==
    /\ (acc.name = "read_word_from_memory" /\ ~acc.raised) =>
          acc.result = WordOf(MemByte(byte_memory, acc.addr + 3),
                              MemByte(byte_memory, acc.addr + 2),
                              MemByte(byte_memory, acc.addr + 1),
                              MemByte(byte_memory, acc.addr))
    /\ (acc.name = "read_halfword_from_memory" /\ ~acc.raised) =>
          acc.result = WordOf(0, 0, MemByte(byte_memory, acc.addr + 1),
                                    MemByte(byte_memory, acc.addr))
    /\ (acc.name \in {"write_word_to_memory", "write_halfword_to_memory"}
           /\ ~acc.raised) =>
          MemByte(byte_memory, acc.addr) = ByteOf(acc.data, 0)
    /\ (acc.name = "convert_hex_memory_to_byte_memory" /\ ~acc.raised) =>
          \A i \in 1..Len(acc.data) :
             read_word_from_memory(byte_memory, acc.data[i][1]) = acc.data[i][2]

\* d mod 2^(4*k), for a value d given by its hexadecimal digits
LowDigits(d, k) == Normal(IF Len(d) > k THEN SubSeq(d, Len(d) - k + 1, Len(d)) ELSE d)

\* the two memories agree on every byte outside addr .. addr + n - 1
SameOutside(m1, m2, addr, n) ==
    /\ m1.fill = m2.fill
    /\ \A x \in (DOMAIN m1.bytes) \cup (DOMAIN m2.bytes) :
          (x < addr \/ x >= addr + n) => MemByte(m1, x) = MemByte(m2, x)

WroteInRange(name) == acc.name = name /\ ~acc.raised

\* C21: each write accessor round-trips with the read accessor of its size.
\* After write_word_to_memory(mem, a, d) on in-range addresses,
\* read_word_from_memory(mem, a) is d mod 2^32 and only bytes a..a+3 changed;
\* after write_halfword_to_memory the halfword read is d mod 2^16 and only
\* bytes a..a+1 changed; after write_byte_to_memory the byte read is
\* d mod 2^8 and only byte a changed.
C21_RoundTrip ==
    /\ WroteInRange("write_word_to_memory") =>
          /\ read_word_from_memory(byte_memory, acc.addr) = LowDigits(acc.data, 8)
          /\ SameOutside(byte_memory, acc.before, acc.addr, 4)
    /\ WroteInRange("write_halfword_to_memory") =>
          /\ read_halfword_from_memory(byte_memory, acc.addr) = LowDigits(acc.data, 4)
          /\ SameOutside(byte_memory, acc.before, acc.addr, 2)
    /\ WroteInRange("write_byte_to_memory") =>
          /\ WordOf(0, 0, 0, read_byte_from_memory(byte_memory, acc.addr))
                = LowDigits(acc.data, 2)
          /\ SameOutside(byte_memory, acc.before, acc.addr, 1)

\* a 33-bit value was written as a word over bytes that held other values,
\* next to a byte that differs from the fill
C21_Witness ==
    /\ WroteInRange("write_word_to_memory")
    /\ Len(acc.data) = 9
    /\ acc.addr = 1
    /\ 0 \in DOMAIN acc.before.bytes
    /\ 2 \in DOMAIN acc.before.bytes
    /\ byte_memory # acc.before

----------------------------------------------------------------------------
(* The bus levels I2CSlaveBFM presents (Spec). *)

\* C22: at every tick the bus levels the BFM presents are the wired-AND of
\* the drivers: sda_in is 0 if the master drives SDA low or the slave drives
\* it low and 1 otherwise, and scl_in is 0 whenever the master drives SCL low.
\* (prev_sda and prev_scl hold the master's levels the tick sampled.)
C22_WiredAnd ==
    Ticked =>
       /\ (i2c.prev_sda = 0 => i2c.sda_in = 0)
       /\ (i2c.prev_scl = 0 => i2c.scl_in = 0)

----------------------------------------------------------------------------
(* Stopping the I2C slave (SpecStop): the free-running specification with    *)
(* stop() called at any moment after run() has started.                      *)

\* I2CSlaveBFM.stop
I2C_stop(s) == [s EXCEPT !.running = FALSE, !.sda_in = 1]

\* a test calls bfm.stop() on a BFM whose run() has started
Stop ==
    /\ i2c.pc # "created"
    /\ i2c' = I2C_stop(i2c)
    /\ last' = NoTick("stop")
    /\ UNCHANGED <<memVars, i2c_acked, masterVars, spiVars>>

NextStop ==
    \/ SetTxData
    \/ RunBegin
    \/ Tick
    \/ Stop

SpecStop == Init /\ [][NextStop]_vars

\* stop() has been called and run() has not been started again
I2C_stopped == ~i2c.running /\ i2c.pc # "created"

\* C23: stop() takes effect immediately and is idempotent.  Once stop() has
\* returned, also when run() was suspended waiting for the next clock edge,
\* no step changes the slave's FSM state or its rx_bytes, and SDA stays at
\* the released level 1.
C23_StopImmediate ==
    [][I2C_stopped =>
          /\ i2c'.state = i2c.state
          /\ i2c'.rx_bytes = i2c.rx_bytes
          /\ i2c'.sda_in = 1]_vars

----------------------------------------------------------------------------
(* The wait helpers of SPISlaveBFM (SpecWait): the BFM runs under arbitrary  *)
(* master levels, a test calls one of the helpers at any moment, and from    *)
(* then on every clock edge resumes both run() and the helper, in either     *)
(* order.                                                                    *)

\* timeout_cycles handed to wait_for_transfer
Timeouts == {0, 1, 2}
\* <<n, timeout_cycles>> handed to wait_for_n_transfers
CountsAndTimeouts == {<<0, 1>>, <<1, 0>>, <<1, 2>>, <<2, 2>>}
\* the MOSI pattern the master shifts out while a test waits: 0x155
WaitMosiWords == {341}

\* a test awaits bfm.wait_for_transfer(timeout_cycles)
WaitForTransfer ==
    /\ spi.pc = "await"
    /\ wt.pc = "none"
    /\ \E timeout_cycles \in Timeouts :
          wt' = SPI_wait_for_transfer_begin(spi, timeout_cycles)
    /\ UNCHANGED <<qspi, qh, byte_memory, acc, i2cVars, masterVars, spiVars>>

\* a test awaits bfm.wait_for_n_transfers(n, timeout_cycles)
WaitForNTransfers ==
    /\ spi.pc = "await"
    /\ wt.pc = "none"
    /\ \E a \in CountsAndTimeouts :
          wt' = SPI_wait_for_n_transfers_begin(spi, a[1], a[2])
    /\ UNCHANGED <<qspi, qh, byte_memory, acc, i2cVars, masterVars, spiVars>>

\* one rising edge of the system clock before a helper is called
WaitSPITick ==
    /\ spi.pc = "await"
    /\ wt.pc = "none"
    /\ \E cs_n \in Bit, sclk \in Bit, mosi \in Bit :
          spi' = SPI_tick(spi, cs_n, sclk, mosi)
    /\ spi'.rx_byte \in {w \div Pow2(9 - k) : w \in WaitMosiWords, k \in 0..9}
    /\ Len(spi'.rx_buffer) <= MaxSpiRx
    /\ UNCHANGED <<qspi, qh, byte_memory, acc, wt, i2cVars, masterVars, spi_h>>

\* one rising edge of the system clock while a helper waits: run() and the
\* helper both resume, run() first or the helper first
WaitEdge ==
    /\ spi.pc = "await"
    /\ wt.pc = "await"
    /\ \E cs_n \in Bit, sclk \in Bit, mosi \in Bit, run_first \in BOOLEAN :
          LET s2 == SPI_tick(spi, cs_n, sclk, mosi)
              seen == IF run_first THEN s2 ELSE spi
          IN  /\ spi' = s2
              /\ wt' = IF wt.kind = "wait_for_transfer"
                       THEN SPI_wait_for_transfer_step(wt, seen.rx_buffer, seen.prev_cs_n,
                                                       cs_n, s2.rx_buffer)
                       ELSE SPI_wait_for_n_transfers_step(wt, seen.rx_buffer)
    /\ spi'.rx_byte \in {w \div Pow2(9 - k) : w \in WaitMosiWords, k \in 0..9}
    /\ UNCHANGED <<qspi, qh, byte_memory, acc, i2cVars, masterVars, spi_h>>

NextWait ==
    \/ SPIRunBegin
    \/ WaitSPITick
    \/ WaitForTransfer
    \/ WaitForNTransfers
    \/ WaitEdge

SpecWait == InitSpecSPI /\ [][NextWait]_vars

WaitDone(kind) == wt.pc = "done" /\ wt.kind = kind

\* the bytes appended to rx_buffer between the call and the return
WaitNew == SubSeq(wt.rx_ret, wt.initial_rx_count + 1, Len(wt.rx_ret))

\* C24: the wait helpers return within their budget and never raise.  A
\* helper that has returned has run at most timeout_cycles iterations, one
\* per clock edge, and while it waits it has run fewer.  wait_for_transfer
\* returns the byte received since the call if rx_buffer grew before it
\* returned and None otherwise; wait_for_n_transfers returns the first n
\* bytes received since the call if n have arrived, and otherwise the fewer
\* than n bytes received so far.
C24_WaitBounded ==
    /\ wt.pc = "await" => wt.cycles < wt.timeout_cycles
    /\ wt.pc = "done" => wt.cycles <= wt.timeout_cycles
    /\ WaitDone("wait_for_transfer") =>
          wt.result = IF WaitNew # <<>> THEN <<"byte", WaitNew[1]>> ELSE <<"None">>
    /\ WaitDone("wait_for_n_transfers") =>
          wt.result = IF Len(WaitNew) >= wt.n
                      THEN <<"list", SubSeq(WaitNew, 1, wt.n)>>
                      ELSE <<"list", WaitNew>>

\* wait_for_n_transfers(1, 2) was called with one byte already in rx_buffer
\* and returned the byte received after the call
C24_Witness ==
    /\ WaitDone("wait_for_n_transfers")
    /\ wt.n = 1
    /\ wt.initial_rx_count = 1
    /\ Len(wt.result[2]) = 1
    /\ wt.cycles = 2

----------------------------------------------------------------------------
(* Further claims about the flash/PSRAM emulator (SpecQSPI). *)

\* the last tick deselected a transaction that had not reached its data phase
AbandonedEarly ==
    /\ QTicked /\ qh.desel
    /\ qh.from \in {"SEND_CMD", "SEND_CMD_QUAD", "SEND_ADDR", "DUMMY"}

\* C25: a transaction abandoned by chip-select deassertion in SendCmd,
\* SendCmdQuad, SendAddr or Dummy leaves the memory as it was when the
\* transaction started and raises no error, whatever command and address
\* bits were shifted in before.
C25_AbandonHarmless ==
    AbandonedEarly =>
       /\ qspi.raised = ""
       /\ qspi.memory = qh.mem0

\* the step is a tick that keeps the chip-select asserted and samples SCLK at
\* the level the tick before it sampled: a further tick of one SCLK phase
SamePhaseTick(level) ==
    /\ qh.name = "tick" /\ qh.sclk = level
    /\ qh'.name = "tick" /\ qh'.sclk = level /\ ~qh'.desel

\* C26: in the DataTransfer phase of a write the emulator shifts 4 bits into
\* data once per SCLK-low phase, however many ticks SCLK stays low: a further
\* tick of the same low phase shifts nothing, so the word written after the
\* 8th low phase is made of the 8 nibbles the master drove.
C26_NibblePerLowPhase ==
    [][(/\ qspi.fsm_state = "DATA_TRANSFER"
        /\ ~qspi.is_instr /\ qspi.command # 235
        /\ SamePhaseTick(0))
       => /\ qspi'.data = qspi.data
          /\ qspi'.bit_counter = qspi.bit_counter
          /\ qspi'.memory = qspi.memory]_vars

\* C27: in SendCmd, SendCmdQuad, SendAddr and Dummy the emulator advances once
\* per SCLK pulse, however many ticks SCLK stays high: a further tick of the
\* same high phase samples nothing and counts nothing, so the command takes 8
\* (single-wire) or 2 (quad) pulses and the address and the dummy phase 6
\* pulses each.
C27_AdvancePerPulse ==
    [][(/\ qspi.fsm_state \in {"SEND_CMD", "SEND_CMD_QUAD", "SEND_ADDR", "DUMMY"}
        /\ SamePhaseTick(1))
       => /\ qspi'.fsm_state = qspi.fsm_state
          /\ qspi'.bit_counter = qspi.bit_counter
          /\ qspi'.command = qspi.command
          /\ qspi'.addr = qspi.addr]_vars

\* C28: flash_in_cont_mode is false initially, and while the coroutine runs it
\* changes only by becoming true on the tick that completes the transfer of a
\* 32-bit word in DataTransfer on the instruction path; a read abandoned after
\* fewer than 32 data bits and every data-path transaction leave it unchanged.
C28_ContModeAfterWord ==
    [][(qspi'.pc = "await" /\ qspi'.flash_in_cont_mode # qspi.flash_in_cont_mode)
       => /\ qspi'.flash_in_cont_mode
          /\ qspi.is_instr
          /\ qspi.fsm_state = "DATA_TRANSFER"
          /\ qspi.bit_counter = 28]_vars

\* C29: on the data path a read (opcode 0xEB) at address A drives, after the
\* dummy phase, read_word_from_memory(mem, PSRAM_BASE_ADDR + A) most-significant
\* nibble first, and in every further 32-bit data phase of the same chip-select
\* assertion the word stored 4 bytes further on: the k-th nibble of the j-th
\* data phase is nibble 7-k of read_word_from_memory(mem, PSRAM_BASE_ADDR + A + 4*j).
C29_DataRead ==
    (QTicked /\ qh.drove /\ ~qspi.is_instr) =>
        /\ qh.A \in Addrs
        /\ qspi.bus_io_in = ExpectedNibble(PSRAM_BASE_ADDR)
        /\ qspi.addr = PSRAM_BASE_ADDR + qh.A + 4 * qh.words

----------------------------------------------------------------------------
(* The byte-complete branch of SPISlaveBFM under the well-formed master      *)
(* (SpecSPIMaster). *)

\* C30: in a well-formed Mode-0 transfer the byte-complete branch of the SCLK
\* rising edge (bit_count == 8) is never executed: rx_buffer grows only on the
\* tick that samples the chip-select rising edge.
C30_ByteBranchDead ==
    (spi_h.name = "tick" /\ Len(spi.rx_buffer) > spi_h.lenpre) => spi_h.cs_rise

----------------------------------------------------------------------------
(* The address of a flash/PSRAM transaction (SpecQSPI). *)

\* the region base of the selected path
RegionBase == IF qspi.is_instr THEN FLASH_BASE_ADDR ELSE PSRAM_BASE_ADDR

\* C31: the region base is added to the address exactly once, on the tick
\* that completes the 24-bit address phase, in continuous mode too.  During
\* the command phase addr is 0, during the address phase it holds the
\* bit_counter address bits shifted so far, and from then on it is
\* base + A + 4 * (32-bit read words completed).
C31_RebasedOnce ==
    qspi.pc = "await" =>
       /\ qspi.fsm_state \in {"SEND_CMD", "SEND_CMD_QUAD"} => qspi.addr = 0
       /\ qspi.fsm_state = "SEND_ADDR" =>
             /\ qspi.bit_counter < 24
             /\ qspi.addr < Pow2(qspi.bit_counter)
             /\ qh.A = -1
       /\ qspi.fsm_state \in {"DUMMY", "DATA_TRANSFER", "DONE"} =>
             /\ qh.A \in 0..(Pow2(24) - 1)
             /\ qspi.addr = RegionBase + qh.A + 4 * qh.words

\* a data-path read at 0x000010 has driven one whole word
C31_Witness ==
    /\ qspi.pc = "await"
    /\ qspi.fsm_state = "DATA_TRANSFER"
    /\ ~qspi.is_instr /\ qspi.command = 235
    /\ qh.A = 16 /\ qh.words = 1
    /\ qspi.addr = PSRAM_BASE_ADDR + 20

----------------------------------------------------------------------------
(* Both slave BFMs under arbitrary levels (SpecBFMs).  The two BFMs share no
   state, so a behaviour exercises one of them and leaves the other as it
   was constructed. *)

I2CAlone == spi = SPI_init /\ spi_h = SPI_NoHistory("init")

SPIAlone == i2c = I2C_init /\ last = NoTick("init")

NextBFMs ==
    \/ I2CAlone /\ SetTxData
    \/ I2CAlone /\ RunBegin
    \/ I2CAlone /\ Tick
    \/ SPIAlone /\ SPISetTxData
    \/ SPIAlone /\ SPIRunBegin
    \/ SPIAlone /\ SPITick

SpecBFMs == Init /\ [][NextBFMs]_vars

\* a tick on which the slave leaves an ACK slot and enters the next data byte
I2C_next_byte_begins ==
    /\ Ticked
    /\ last.from \in {"ACK_ADDR", "ACK_WRITE", "READ_WAIT_ACK"}
    /\ i2c.state \in {"DATA_WRITE", "DATA_READ"}

\* C32: in every reachable state of both BFMs bit_count is in 0..8; the I2C
\* shift register is a byte; the I2C bit counter is 0 after every tick with a
\* STOP and after the tick that opens the byte following a completed byte.
C32_CountersInRange ==
    /\ i2c.bit_count \in 0..8
    /\ spi.bit_count \in 0..8
    /\ i2c.shift_reg \in 0..255
    /\ (Ticked /\ last.stop) => i2c.bit_count = 0
    /\ I2C_next_byte_begins => i2c.bit_count = 0

\* a second written byte begins: the counter stood at 8 and is cleared
C32_Witness ==
    /\ I2C_next_byte_begins
    /\ last.from = "ACK_WRITE"
    /\ last.bit_count = 8
    /\ Len(i2c.rx_bytes) = 2
    /\ i2c.bit_count = 0

----------------------------------------------------------------------------
(* The level the I2C slave drives during the SCL-high phases of a
   transaction whose master holds every level for at least two ticks
   (SpecMaster with m_fast = FALSE). *)

\* the last tick sampled SCL high inside the transaction: after the START
\* and without a START or STOP condition of its own
SclHighInTransaction ==
    /\ Ticked
    /\ m_pos > 1
    /\ i2c.prev_scl = 1
    /\ ~last.start /\ ~last.stop

\* C33: with every SCL phase at least two ticks long, the slave changes the
\* level it drives on SDA only on ticks where SCL is low: on a tick inside a
\* transaction that samples SCL high, the driven level is what it was before.
C33_SdaStableWhileSclHigh ==
    (SclHighInTransaction /\ ~m_fast) => i2c.sda_in = last.sda_in

----------------------------------------------------------------------------
(* The TX cursor of the I2C slave against the bytes it has shifted out
   (SpecMaster). *)

\* the number of read bytes the slave has shifted out completely
BytesShiftedOut == Len(m_got) \div 8

\* C34: every byte the cursor takes from tx_bytes is transmitted: when a read
\* transaction has ended with its STOP, the cursor has passed no more
\* elements than bytes were shifted out, also when the master ACKed the last
\* byte it read.
C34_NoByteSkipped ==
    (~IsWrite /\ MasterDone /\ Ticked) => i2c.tx_index <= BytesShiftedOut

----------------------------------------------------------------------------
(* set_tx_data called on a running SPISlaveBFM before the first transfer of
   a well-formed master, chip-select still deasserted (SpecSPILate). *)

\* bfm.set_tx_data(tx_data) while run() is waiting for a clock edge
SPILateSetTxData ==
    /\ spi.pc = "await"
    /\ m_pos = 0
    /\ spi.tx_buffer = <<>>
    /\ \E l \in SpiMasterTxLists : spi' = SPI_set_tx_data(spi, l)
    /\ spi_h' = SPI_NoHistory("set_tx_data")
    /\ UNCHANGED <<memVars, i2cVars, masterVars>>

NextSPILate ==
    \/ SPIRunBegin
    \/ SPILateSetTxData
    \/ SPIMasterTick

SpecSPILate == InitSPIMaster /\ [][NextSPILate]_vars

\* C35: after set_tx_data(L) on a running BFM with chip-select deasserted,
\* the next complete transfer shifts out L[0] and the following ones L[1],
\* L[2], ...: the MISO level at the j-th rising edge of transfer k is bit 7-j
\* of L[k].
C35_LateTxData ==
    \A i \in 1..Len(m_got) :
        m_got[i] = BitAt(SpiTxByteAt((i - 1) \div 8), 7 - ((i - 1) % 8))

----------------------------------------------------------------------------
(* Transactions per chip-select assertion of the flash/PSRAM emulator
   (SpecQSPI). *)

\* the last tick took the write branch from Done to Idle with the
\* chip-select still sampled low
WriteDoneSelected ==
    /\ QTicked
    /\ qspi.pc = "await"
    /\ qh.from = "DONE" /\ ~qh.desel
    /\ qspi.fsm_state = "IDLE"

\* C36: at most one transaction per chip-select assertion: after a completed
\* data-path write the emulator does not leave Idle on the next tick, on
\* which the chip-select cannot have been deasserted and asserted again.
C36_OneTransactionPerSelect ==
    [][WriteDoneSelected => qspi'.fsm_state = "IDLE"]_vars

----------------------------------------------------------------------------
(* The bytes SPISlaveBFM records under arbitrary levels (SpecSPI). *)

\* C37: every value stored in rx_buffer is a byte, also when the chip-select
\* is asserted from the first tick on and no falling edge of it is observed.
C37_RxBytes ==
    \A k \in 1..Len(spi.rx_buffer) : spi.rx_buffer[k] \in 0..255

----------------------------------------------------------------------------
(* The states in which the I2C slave drives SDA low (Spec). *)

\* the states in which the slave may hold SDA low
DrivingStates == {"ACK_ADDR", "ACK_WRITE", "DATA_READ"}

\* C38: a running slave drives SDA low only in ACK_ADDR, ACK_WRITE or
\* DATA_READ; in IDLE, ADDR, DATA_WRITE and READ_WAIT_ACK its SDA drive is
\* released (1).
C38_DrivesLowOnlyWhenAcking ==
    i2c.running =>
        /\ i2c.sda_in \in Bit
        /\ i2c.sda_in = 0 => i2c.state \in DrivingStates
        /\ i2c.state \in {"IDLE", "ADDR", "DATA_WRITE", "READ_WAIT_ACK"} => i2c.sda_in = 1

\* bit 0 of a read byte was driven low and is released on entering READ_WAIT_ACK
C38_Witness ==
    /\ Ticked
    /\ i2c.running
    /\ last.from = "DATA_READ" /\ last.sda_in = 0
    /\ i2c.state = "READ_WAIT_ACK"
    /\ i2c.sda_in = 1

----------------------------------------------------------------------------
(* The emulator with the data path never selected: ram_cs_n is high on every
   tick, and the master may send any opcode of Commands on the instruction
   path, the write opcodes included (SpecFlashOnly). *)

\* the bits shifted in so far are leading bits of an opcode and of an address
SpellsFlashOnly(s) ==
    /\ s.fsm_state = "SEND_CMD" =>
          s.command \in {c \div Pow2(8 - s.bit_counter) : c \in Commands}
    /\ s.fsm_state = "SEND_ADDR" =>
          s.addr \in {a \div Pow2(24 - s.bit_counter) : a \in Addrs}

\* one iteration of the for loop with ram_cs_n high, the callback returning False
QSPIFlashTick ==
    /\ qspi.pc = "await"
    /\ \E flash_cs_n \in Bit, sclk \in Bit :
       \E io_out \in IoOut(qspi, flash_cs_n, 1, sclk) :
          /\ qspi' = QSPI_tick(qspi, flash_cs_n, 1, sclk, io_out)
          /\ qh' = QSPI_sampled(qh, qspi, qspi', flash_cs_n, 1, sclk, io_out)
    /\ SpellsFlashOnly(qspi')
    /\ qh'.A \in Addrs \cup {-1}
    /\ qh'.trans <= MaxTrans
    /\ qh'.words <= MaxWords
    /\ UNCHANGED otherVars

NextFlashOnly ==
    \/ QSPIFlashTick
    \/ QSPIReturn
    \/ QSPIFailed

SpecFlashOnly == InitSpecQSPI /\ [][NextFlashOnly]_vars

\* C39: no instruction-path transaction modifies memory: while only
\* flash_cs_n is ever asserted the memory array is after every tick what it
\* was initially.
C39_FlashNeverWrites ==
    qspi.memory = ImageMemory

\* an instruction-path transaction with the write opcode 0x38 is deselected
\* after one byte of its data phase, and memory is untouched
C39_Witness ==
    /\ QTicked
    /\ qh.desel /\ qh.d_instr
    /\ qh.d_command = 56 /\ qh.d_bits = 8
    /\ qspi.fsm_state = "IDLE"
    /\ qspi.memory = ImageMemory

====
